---- MODULE Spec2Model ----
(***************************************************************************)
(* Order placement and payment settlement of the Tv-Led backend:           *)
(*   OrdersService   (src/src/orders/orders.service.ts, lines 252-667)     *)
(*   CheckoutService (src/src/checkout/checkout.service.ts)                *)
(*   CartService     (src/src/cart/cart.controller.ts, lines 173-560)      *)
(*   ProductsService (src/src/products/products.service.ts)                *)
(*                                                                         *)
(* The database is PostgreSQL behind Prisma.  The variables products,      *)
(* carts, orders and payments hold the COMMITTED rows.  A createOrder call *)
(* runs its body inside prisma.$transaction (READ COMMITTED): its writes   *)
(* are buffered in the call's own record (nDec, orderNumber, cleared) and  *)
(* become visible in the single TxCommit step; a row it has written stays  *)
(* locked for other writers until the call commits or aborts.  Every       *)
(* await of the source is one step of the model.                           *)
(***************************************************************************)
EXTENDS Integers, Sequences, FiniteSets, TLC

\* ---------------------------------------------------------------- bounds
MaxStock == 2
MaxPrice == 2
MaxQty == 2
NumOrderNumbers == 2
MaxCartQty == 2
MaxTime == 3

Products == {"p1", "p2"}
Users == {"u1", "u2"}
Sessions == {"s1"}
Null == "null"
CartKeys == Users \cup Sessions
Calls == {1, 2, 3}
Prices == 1..MaxPrice
OrderNumbers == 1..NumOrderNumbers

VARIABLES
  products,   \* Product rows: [exists, price, stock]
  carts,      \* Cart rows by owner: [exists, rows, userId, sessionId, items]
  orders,     \* Order rows with their OrderItems, order id = position
  payments,   \* Payment rows by order id: [exists, status, ...]
  call,       \* one record per createOrder / initiatePayment invocation
  cb,         \* one record per callback delivery being handled
  removing,   \* products whose ProductsService.remove is between sync and delete
  now,        \* the clock read by new Date()
  lastRead,   \* the response of the latest getOrder / getPaymentStatus
  initStock,  \* the stock every product started with (never changes)
  creq        \* one record per cart request / guest cart migration being handled

vars == <<products, carts, orders, payments, call, cb, removing, now, lastRead, initStock, creq>>

\* ------------------------------------------------------------ exceptions
NoResult == [class |-> "none", msg |-> "none"]
Ok == [class |-> "ok", msg |-> "ok"]
BadRequestException(m) == [class |-> "BadRequestException", msg |-> m]
NotFoundException(m) == [class |-> "NotFoundException", msg |-> m]
\* errors raised by Prisma itself: P2002 unique constraint, P2028 transaction
PrismaError(code) == [class |-> "PrismaClientKnownRequestError", msg |-> code]

\* --------------------------------------------------------------- payments
\* what a gateway posts to /checkout/payment/callback: the order number it
\* names, the status it reports, and whether its signature field is the HMAC
\* of the payload under the merchant secret
NoResponse == [orderId |-> 0, status |-> "none", signed |-> FALSE]

\* the gatewayResponse written by handleMockPaymentSuccess: {mock: true, ...}
MockResponse == [orderId |-> 0, status |-> "mock", signed |-> FALSE]

\* payments[i] is the Payment row that findUnique / update by orderId reach
\* for order i, and rows the number of Payment rows with that orderId
NoPayment ==
  [exists |-> FALSE, rows |-> 0, status |-> "PENDING", amount |-> 0, paidAt |-> 0,
   hasUrl |-> FALSE, gatewayResponse |-> NoResponse]

\* ------------------------------------------------------------ cart reads
\* carts[key] is the Cart row that findUnique by userId / sessionId reaches
\* for the owner key, and rows the number of Cart rows of that owner
NoCart ==
  [exists |-> FALSE, rows |-> 0, userId |-> Null, sessionId |-> Null, items |-> <<>>]

\* the Cart row of the user or the guest session key, holding items
cartRow(key, items) ==
  [exists |-> TRUE, rows |-> 1,
   userId |-> IF key \in Users THEN key ELSE Null,
   sessionId |-> IF key \in Sessions THEN key ELSE Null,
   items |-> items]

\* createOrder lines 289-293 / the clear at 424-434: userId wins over sessionId
cartIdentifier(userId, sessionId) ==
  IF userId # Null THEN userId ELSE IF sessionId # Null THEN sessionId ELSE Null

\* CartService.getCart: every stored line item, enriched with the live product
getCart(key) ==
  IF ~carts[key].exists THEN <<>>
  ELSE [i \in 1..Len(carts[key].items) |->
          [productId |-> carts[key].items[i].productId,
           quantity |-> carts[key].items[i].quantity,
           product |-> products[carts[key].items[i].productId].exists]]

\* (variant: the filter keeps the items whose product is null)
IsLiveAlways(item) == TRUE

\* lines 306-307: .filter((item) => item.product !== null)
IsLive(item) == item.product

validCartItems(itemsWithProducts) ==
  LET live == SelectSeq(itemsWithProducts, IsLive)
  IN [i \in 1..Len(live) |->
        [productId |-> live[i].productId, quantity |-> live[i].quantity]]

\* ------------------------------------------------- createOrder, pure part
\* the sum of a sequence of numbers
RECURSIVE SumSeq(_)
SumSeq(s) == IF s = <<>> THEN 0 ELSE s[1] + SumSeq(Tail(s))

\* (variant: the reduce adds the prices without the quantities)
RECURSIVE totalAmountOfPrices(_)
totalAmountOfPrices(productUpdates) ==
  IF productUpdates = <<>> THEN 0
  ELSE totalAmountOfPrices(SubSeq(productUpdates, 1, Len(productUpdates) - 1))
       + productUpdates[Len(productUpdates)].price

\* lines 355-358
RECURSIVE totalAmount(_)
totalAmount(productUpdates) ==
  IF productUpdates = <<>> THEN 0
  ELSE totalAmount(SubSeq(productUpdates, 1, Len(productUpdates) - 1))
       + productUpdates[Len(productUpdates)].price
         * productUpdates[Len(productUpdates)].quantity

orderItems(productUpdates) ==
  [i \in 1..Len(productUpdates) |->
     [productId |-> productUpdates[i].productId,
      quantity |-> productUpdates[i].quantity,
      unitPrice |-> productUpdates[i].price,
      totalPrice |-> productUpdates[i].price * productUpdates[i].quantity]]

\* (variant: the where clause without stock: {gte: quantity})
updateManyCountAnyStock(product, quantity) ==
  IF product.exists THEN 1 ELSE 0

\* tx.product.updateMany({where: {id, stock: {gte: quantity}}}): rows matched
updateManyCount(product, quantity) ==
  IF product.exists /\ product.stock >= quantity THEN 1 ELSE 0

\* ------------------------------------------------- transaction bookkeeping
InTx(c) == call[c].pc \in {"read", "dec", "insert", "clear", "commit"}

\* the product rows call c has decremented and therefore holds locked
Decremented(c) ==
  {call[c].productUpdates[i].productId : i \in 1..call[c].nDec}

ProductLockedByOther(p, c) ==
  \E d \in Calls \ {c} : InTx(d) /\ p \in Decremented(d)
ProductLocked(p) == \E d \in Calls : InTx(d) /\ p \in Decremented(d)

\* the cart row is locked from the clearing updateMany until the commit
CartLocked(key) ==
  \E d \in Calls :
     call[d].pc = "commit" /\ cartIdentifier(call[d].userId, call[d].sessionId) = key

IdleCall ==
  [pc |-> "idle", userId |-> Null, sessionId |-> Null, items |-> <<>>,
   productUpdates |-> <<>>, nDec |-> 0, orderNumber |-> 0, method |-> Null,
   orderId |-> 0, result |-> NoResult]

\* (variant: every line decrements the stock by one unit)
RECURSIVE applyDecrementsByOne(_, _)
applyDecrementsByOne(prods, productUpdates) ==
  IF productUpdates = <<>> THEN prods
  ELSE LET u == productUpdates[Len(productUpdates)]
           rest == applyDecrementsByOne(prods, SubSeq(productUpdates, 1, Len(productUpdates) - 1))
       IN [rest EXCEPT ![u.productId].stock = @ - 1]

\* the product rows after the decrements of productUpdates, lines 368-372
RECURSIVE applyDecrements(_, _)
applyDecrements(prods, productUpdates) ==
  IF productUpdates = <<>> THEN prods
  ELSE LET u == productUpdates[Len(productUpdates)]
           rest == applyDecrements(prods, SubSeq(productUpdates, 1, Len(productUpdates) - 1))
       IN [rest EXCEPT ![u.productId].stock = @ - u.quantity]

\* (variant: the decrements already issued survive the abort, as they would
\* if they were sent through this.prisma instead of tx)
rollbackKeepsDecrements(c) ==
  IF InTx(c)
  THEN applyDecrements(products, SubSeq(call[c].productUpdates, 1, call[c].nDec))
  ELSE products

\* the committed product rows after the transaction of call c is rolled
\* back: prisma.$transaction drops the buffered decrements
rollback(c) == products

\* (variant: tx.cart.deleteMany instead of the clearing updateMany)
clearCartDeletes(cs, key) == [cs EXCEPT ![key] = NoCart]

\* tx.cart.updateMany({where: {userId | sessionId}, data: {items: []}})
clearCart(cs, key) ==
  IF cs[key].exists THEN [cs EXCEPT ![key].items = <<>>] ELSE cs

\* a finished call keeps its identity, its result and, for an aborted call,
\* the number of items it had decremented; its other locals are dead
Finished(me, pc, res, orderId) ==
  [IdleCall EXCEPT !.pc = pc, !.userId = me.userId, !.sessionId = me.sessionId,
                   !.nDec = IF res = Ok THEN 0 ELSE me.nDec,
                   !.orderId = orderId, !.result = res]

Abort(c, err) ==
  /\ call' = [call EXCEPT ![c] = Finished(call[c], "done", err, 0)]
  /\ products' = rollback(c)
  /\ UNCHANGED <<carts, orders, payments, cb, removing, now, lastRead, initStock, creq>>

\* ------------------------------------------------------ createOrder steps
\* lines 285-318: identity, getCart outside the transaction, cart validation
StartCreateOrder(c, userId, sessionId) ==
  /\ call[c].pc = "idle"
  /\ LET key == cartIdentifier(userId, sessionId)
         me == [call[c] EXCEPT !.userId = userId, !.sessionId = sessionId]
     IN IF key = Null
        THEN call' = [call EXCEPT ![c] = Finished(me, "done",
                 BadRequestException("Either userId or sessionId must be provided"), 0)]
        ELSE LET itemsWithProducts == getCart(key)
                 valid == validCartItems(itemsWithProducts)
             IN IF Len(itemsWithProducts) = 0
                THEN call' = [call EXCEPT ![c] =
                       Finished(me, "done", BadRequestException("Cart is empty"), 0)]
                ELSE IF Len(valid) = 0
                THEN call' = [call EXCEPT ![c] = Finished(me, "done",
                         BadRequestException("Cart contains only deleted products"), 0)]
                ELSE call' = [call EXCEPT ![c] = [me EXCEPT !.pc = "read", !.items = valid]]
  /\ UNCHANGED <<products, carts, orders, payments, cb, removing, now, lastRead, initStock, creq>>

\* lines 328-352: one findUnique and stock check per loop iteration
TxRead(c) ==
  /\ call[c].pc = "read"
  /\ LET item == call[c].items[Len(call[c].productUpdates) + 1]
         product == products[item.productId]
     IN IF ~product.exists
        THEN Abort(c, NotFoundException("Product not found"))
        ELSE IF product.stock < item.quantity
        THEN Abort(c, BadRequestException("Insufficient stock"))
        ELSE /\ call' = [call EXCEPT
                  ![c].productUpdates = Append(@,
                      [productId |-> item.productId, quantity |-> item.quantity,
                       currentStock |-> product.stock, price |-> product.price]),
                  ![c].pc = IF Len(call[c].productUpdates) + 1 = Len(call[c].items)
                            THEN "dec" ELSE "read"]
             /\ UNCHANGED <<products, carts, orders, payments, cb, removing, now, lastRead, initStock, creq>>

\* lines 362-381: one conditional updateMany per loop iteration; the write
\* waits while another transaction holds the row
TxDecrement(c) ==
  /\ call[c].pc = "dec"
  /\ LET item == call[c].productUpdates[call[c].nDec + 1]
     IN /\ ~ProductLockedByOther(item.productId, c)
        /\ IF updateManyCount(products[item.productId], item.quantity) = 0
           THEN Abort(c, BadRequestException("Stock insufficient. Another purchase may have occurred."))
           ELSE /\ call' = [call EXCEPT
                     ![c].nDec = @ + 1,
                     ![c].pc = IF call[c].nDec + 1 = Len(call[c].productUpdates)
                               THEN "insert" ELSE "dec"]
                /\ UNCHANGED <<products, carts, orders, payments, cb, removing, now, lastRead, initStock, creq>>

\* lines 384-421: order.create with a freshly generated order number; the
\* unique index on orderNumber rejects a number that is already committed and
\* makes the insert wait for a number another transaction has inserted
TxInsert(c, n, method) ==
  /\ call[c].pc = "insert"
  /\ ~\E d \in Calls \ {c} : call[d].pc \in {"clear", "commit"} /\ call[d].orderNumber = n
  /\ IF \E i \in 1..Len(orders) : orders[i].orderNumber = n
     THEN Abort(c, PrismaError("P2002"))
     ELSE /\ call' = [call EXCEPT ![c].orderNumber = n, ![c].method = method,
                                  ![c].pc = "clear"]
          /\ UNCHANGED <<products, carts, orders, payments, cb, removing, now, lastRead, initStock, creq>>

\* lines 423-434: the clearing updateMany, still inside the transaction
TxClear(c) ==
  /\ call[c].pc = "clear"
  /\ ~\E d \in Calls \ {c} :
        /\ call[d].pc = "commit"
        /\ cartIdentifier(call[d].userId, call[d].sessionId) =
             cartIdentifier(call[c].userId, call[c].sessionId)
  /\ call' = [call EXCEPT ![c].pc = "commit"]
  /\ UNCHANGED <<products, carts, orders, payments, cb, removing, now, lastRead, initStock, creq>>

newOrder(c) ==
  [userId |-> call[c].userId, sessionId |-> call[c].sessionId,
   orderNumber |-> call[c].orderNumber, status |-> "PENDING",
   paymentMethod |-> call[c].method,
   totalAmount |-> totalAmount(call[c].productUpdates),
   orderItems |-> orderItems(call[c].productUpdates)]

\* line 440 / end of $transaction: all buffered writes become visible at once
TxCommit(c) ==
  /\ call[c].pc = "commit"
  /\ products' = applyDecrements(products, call[c].productUpdates)
  /\ orders' = Append(orders, newOrder(c))
  /\ carts' = clearCart(carts, cartIdentifier(call[c].userId, call[c].sessionId))
  /\ payments' = Append(payments, NoPayment)
  /\ call' = [call EXCEPT ![c] = Finished(call[c], "created", Ok, Len(orders) + 1)]
  /\ UNCHANGED <<cb, removing, now, lastRead, initStock, creq>>

\* a transaction without the maxWait / timeout options: it waits for ever
TxTimeoutNever(c) ==
  /\ InTx(c)
  /\ FALSE
  /\ Abort(c, PrismaError("P2028"))

\* lines 442-445: maxWait / timeout exceeded, Prisma rolls the transaction back
TxTimeout(c) ==
  /\ InTx(c)
  /\ Abort(c, PrismaError("P2028"))

\* OrdersController.createOrder returns the order to the client
ReturnOrder(c) ==
  /\ call[c].pc = "created"
  /\ call' = [call EXCEPT ![c].pc = "done"]
  /\ UNCHANGED <<products, carts, orders, payments, cb, removing, now, lastRead, initStock, creq>>

\* ------------------------------------------------------------ CartService
\* position of the line item of product p in items, 0 when absent (findIndex)
findIndex(items, p) ==
  IF \E i \in 1..Len(items) : items[i].productId = p
  THEN CHOOSE i \in 1..Len(items) :
         /\ items[i].productId = p
         /\ \A j \in 1..(i - 1) : items[j].productId # p
  ELSE 0

\* items.splice(idx, 1)
splice(items, idx) ==
  [i \in 1..(Len(items) - 1) |-> IF i < idx THEN items[i] ELSE items[i + 1]]

\* getOrCreateCart followed by parseCartItems
cartItemsOrNew(key) == IF carts[key].exists THEN carts[key].items ELSE <<>>

\* (variant: the added quantity is taken off the stock, as a reservation)
addToCartReserves(key, p, q) ==
  /\ products[p].exists
  /\ products[p].stock >= q
  /\ ~CartLocked(key)
  /\ ~ProductLocked(p)
  /\ findIndex(cartItemsOrNew(key), p) = 0
  /\ carts' = [carts EXCEPT ![key] =
        cartRow(key, Append(cartItemsOrNew(key), [productId |-> p, quantity |-> q]))]
  /\ products' = [products EXCEPT ![p].stock = @ - q]
  /\ UNCHANGED <<orders, payments, call, cb, removing, now, lastRead, initStock, creq>>

\* addToCart, lines 269-322; a request the stock checks reject writes nothing
addToCart(key, p, q) ==
  /\ products[p].exists
  /\ products[p].stock >= q
  /\ ~CartLocked(key)
  /\ LET items == cartItemsOrNew(key)
         idx == findIndex(items, p)
     IN IF idx > 0
        THEN /\ products[p].stock >= items[idx].quantity + q
             /\ carts' = [carts EXCEPT ![key] =
                  cartRow(key, [items EXCEPT ![idx].quantity = @ + q])]
        ELSE carts' = [carts EXCEPT ![key] =
                  cartRow(key, Append(items, [productId |-> p, quantity |-> q]))]
  /\ UNCHANGED <<products, orders, payments, call, cb, removing, now, lastRead, initStock, creq>>

\* updateCartItem, lines 324-368
updateCartItem(key, p, q) ==
  /\ ~CartLocked(key)
  /\ LET items == cartItemsOrNew(key)
         idx == findIndex(items, p)
     IN IF idx = 0
        THEN \* NotFoundException, after getOrCreateCart has created a missing cart
             /\ ~carts[key].exists
             /\ carts' = [carts EXCEPT ![key] = cartRow(key, <<>>)]
        ELSE IF ~products[p].exists
        THEN carts' = [carts EXCEPT ![key].items = splice(items, idx)]
        ELSE /\ products[p].stock >= q
             /\ items[idx].quantity # q
             /\ carts' = [carts EXCEPT ![key].items = [items EXCEPT ![idx].quantity = q]]
  /\ UNCHANGED <<products, orders, payments, call, cb, removing, now, lastRead, initStock, creq>>

\* removeFromCart, lines 370-391
removeFromCart(key, p) ==
  /\ ~CartLocked(key)
  /\ LET items == cartItemsOrNew(key)
         idx == findIndex(items, p)
     IN IF idx = 0
        THEN /\ ~carts[key].exists
             /\ carts' = [carts EXCEPT ![key] = cartRow(key, <<>>)]
        ELSE carts' = [carts EXCEPT ![key] = cartRow(key, splice(items, idx))]
  /\ UNCHANGED <<products, orders, payments, call, cb, removing, now, lastRead, initStock, creq>>

\* Map.set: the value of an existing key is replaced in place, a new key is
\* appended
mapSet(m, item) ==
  IF findIndex(m, item.productId) > 0
  THEN [m EXCEPT ![findIndex(m, item.productId)] = item]
  ELSE Append(m, item)

\* lines 503-505: userItems.forEach(item => mergedItemsMap.set(...))
RECURSIVE mapOfItems(_)
mapOfItems(userItems) ==
  IF userItems = <<>> THEN <<>>
  ELSE mapSet(mapOfItems(SubSeq(userItems, 1, Len(userItems) - 1)),
              userItems[Len(userItems)])

\* lines 508-518: each guest item is added to the entry of the same product
\* or set as a new entry
RECURSIVE mergeGuestItems(_, _)
mergeGuestItems(m, guestItems) ==
  IF guestItems = <<>> THEN m
  ELSE LET g == guestItems[1]
           idx == findIndex(m, g.productId)
       IN mergeGuestItems(IF idx > 0
                          THEN [m EXCEPT ![idx].quantity = @ + g.quantity]
                          ELSE Append(m, g),
                          Tail(guestItems))

\* (variant: the entry of a product both carts hold takes the guest's quantity)
mergeItemsOverwrites(userItems, guestItems) ==
  LET RECURSIVE over(_, _)
      over(m, gs) ==
        IF gs = <<>> THEN m
        ELSE over(mapSet(m, gs[1]), Tail(gs))
  IN over(mapOfItems(userItems), guestItems)

\* lines 500-520: Array.from(mergedItemsMap.values())
mergeItems(userItems, guestItems) ==
  mergeGuestItems(mapOfItems(userItems), guestItems)

\* migrateGuestCartToUser, lines 477-536
migrateGuestCartToUser(guestSessionId, userId) ==
  /\ ~CartLocked(userId)
  /\ ~CartLocked(guestSessionId)
  /\ IF ~carts[guestSessionId].exists
     THEN /\ ~carts[userId].exists
          /\ carts' = [carts EXCEPT ![userId] = cartRow(userId, <<>>)]
     ELSE LET merged == mergeItems(cartItemsOrNew(userId), carts[guestSessionId].items)
          IN /\ \A i \in 1..Len(merged) : merged[i].quantity <= MaxCartQty
             /\ carts' = [carts EXCEPT
                   ![userId] = cartRow(userId, merged),
                   ![guestSessionId] = NoCart]
  /\ UNCHANGED <<products, orders, payments, call, cb, removing, now, lastRead, initStock, creq>>

\* ------------------------------------------- CartService, await by await
\* One record per cart request being handled; every step below is one await
\* of the service method, so that two requests interleave as they do on the
\* event loop. A finished request keeps what it was asked and its response,
\* and a finished migration also the two item lists it had read.
CartRequests == {1, 2}

IdleRequest ==
  [pc |-> "idle", op |-> "none", userId |-> Null, sessionId |-> Null,
   productId |-> Null, quantity |-> 0, stock |-> 0, branch |-> "none", found |-> FALSE,
   items |-> <<>>, guestItems |-> <<>>, gone |-> FALSE, response |-> NoResult]

\* CartController.getCartIdentifier: {userId} for an authenticated request,
\* else {sessionId} for a guest, else the request is rejected
getCartIdentifier(userId, sessionId) ==
  IF userId # Null THEN [userId |-> userId, sessionId |-> Null]
  ELSE [userId |-> Null, sessionId |-> sessionId]

\* the cart a request works on, as findCart / getOrCreateCart choose it
keyOf(req) == cartIdentifier(req.userId, req.sessionId)

\* (variant: the DTO accepts every number)
AddToCartDtoAny(quantity) == TRUE

\* AddToCartDto: @IsNumber() @Min(1) quantity, enforced by the global
\* ValidationPipe before the controller method runs
AddToCartDto(quantity) == quantity >= 1

\* UpdateCartItemDto (src/cart/dto/update-cart-item.dto.ts): the quantity of a
\* line item is at least 1
UpdateCartItemDto(quantity) == quantity >= 1

\* the record of a request that has returned or thrown: its method and its
\* response and, for a migration, whom it was for and what it had read
respond(req, response) ==
  IF req.op = "migrateGuestCartToUser"
  THEN [IdleRequest EXCEPT !.op = req.op, !.userId = req.userId,
                           !.sessionId = req.sessionId, !.branch = req.branch,
                           !.items = req.items, !.guestItems = req.guestItems,
                           !.response = response]
  ELSE [IdleRequest EXCEPT !.op = req.op, !.response = response]

\* CartController.addToCart and addToCart lines 273-287: identifier, DTO,
\* product.findUnique and the first stock check
addToCartStart(r, userId, sessionId, p, q) ==
  /\ creq[r].pc = "idle"
  /\ LET id == getCartIdentifier(userId, sessionId)
         me == [IdleRequest EXCEPT !.op = "addToCart", !.userId = id.userId,
                                   !.sessionId = id.sessionId,
                                   !.productId = p, !.quantity = q]
     IN creq' = [creq EXCEPT ![r] =
          IF keyOf(me) = Null
          THEN respond(me, BadRequestException("Authentication required"))
          ELSE IF ~AddToCartDto(q)
          THEN respond(me, BadRequestException("quantity must not be less than 1"))
          ELSE IF ~products[p].exists
          THEN respond(me, NotFoundException("Product not found"))
          ELSE IF products[p].stock < q
          THEN respond(me, BadRequestException("Insufficient stock"))
          ELSE [me EXCEPT !.pc = "findCart", !.stock = products[p].stock]]
  /\ UNCHANGED <<products, carts, orders, payments, call, cb, removing, now, lastRead, initStock>>

\* CartController.updateCartItem: identifier and DTO; the service starts with
\* getOrCreateCart
updateCartItemStart(r, userId, sessionId, p, q) ==
  /\ creq[r].pc = "idle"
  /\ LET id == getCartIdentifier(userId, sessionId)
         me == [IdleRequest EXCEPT !.op = "updateCartItem", !.userId = id.userId,
                                   !.sessionId = id.sessionId,
                                   !.productId = p, !.quantity = q]
     IN creq' = [creq EXCEPT ![r] =
          IF keyOf(me) = Null
          THEN respond(me, BadRequestException("Authentication required"))
          ELSE IF ~UpdateCartItemDto(q)
          THEN respond(me, BadRequestException("quantity must not be less than 1"))
          ELSE [me EXCEPT !.pc = "findCart"]]
  /\ UNCHANGED <<products, carts, orders, payments, call, cb, removing, now, lastRead, initStock>>

\* CartController.removeFromCart
removeFromCartStart(r, userId, sessionId, p) ==
  /\ creq[r].pc = "idle"
  /\ LET id == getCartIdentifier(userId, sessionId)
         me == [IdleRequest EXCEPT !.op = "removeFromCart", !.userId = id.userId,
                                   !.sessionId = id.sessionId, !.productId = p]
     IN creq' = [creq EXCEPT ![r] =
          IF keyOf(me) = Null
          THEN respond(me, BadRequestException("Authentication required"))
          ELSE [me EXCEPT !.pc = "findCart"]]
  /\ UNCHANGED <<products, carts, orders, payments, call, cb, removing, now, lastRead, initStock>>

\* a request once getOrCreateCart has returned the cart with these items:
\* the cart methods go on with the items, the migration with its update or,
\* when there is nothing to merge, returns the cart
afterGetOrCreate(req, items) ==
  IF req.op # "migrateGuestCartToUser" THEN [req EXCEPT !.items = items, !.pc = "decide"]
  ELSE IF req.branch = "merge" THEN [req EXCEPT !.items = items, !.pc = "mergeUpdate"]
  ELSE respond([req EXCEPT !.items = items], Ok)

\* getOrCreateUserCart / getOrCreateGuestCart, the findUnique
getOrCreateCartFind(r) ==
  /\ creq[r].pc = "findCart"
  /\ LET key == keyOf(creq[r])
     IN IF carts[key].exists
        THEN creq' = [creq EXCEPT ![r] = afterGetOrCreate(creq[r], carts[key].items)]
        ELSE creq' = [creq EXCEPT ![r].pc = "createCart"]
  /\ UNCHANGED <<products, carts, orders, payments, call, cb, removing, now, lastRead, initStock>>

\* Cart.userId and Cart.sessionId carry unique indexes (prisma/schema.prisma;
\* findUnique where: {userId} / {sessionId} requires them): a second cart of
\* the same owner is rejected with P2002
cartOwnerTaken(cs, key) == cs[key].exists

\* the data of cart.create: {userId, items: []} in getOrCreateUserCart,
\* {sessionId, items: []} in getOrCreateGuestCart
newCart(req) ==
  IF req.userId # Null
  THEN [exists |-> TRUE, rows |-> 1, userId |-> req.userId, sessionId |-> Null,
        items |-> <<>>]
  ELSE [exists |-> TRUE, rows |-> 1, userId |-> Null, sessionId |-> req.sessionId,
        items |-> <<>>]

\* (variant: the insert goes through although the owner has a cart)
insertCartAgain(cs, key, row) ==
  [cs EXCEPT ![key] = [row EXCEPT !.rows = cs[key].rows + 1]]

\* the Cart table after prisma.cart.create of row
insertCart(cs, key, row) ==
  IF cartOwnerTaken(cs, key) THEN cs ELSE [cs EXCEPT ![key] = row]

\* getOrCreateUserCart / getOrCreateGuestCart, the create after a findUnique
\* that found nothing; P2002 when the cart has been created since
getOrCreateCartCreate(r) ==
  /\ creq[r].pc = "createCart"
  /\ LET key == keyOf(creq[r])
     IN /\ carts' = insertCart(carts, key, newCart(creq[r]))
        /\ IF carts' = carts
           THEN creq' = [creq EXCEPT ![r] = respond(creq[r], PrismaError("P2002"))]
           ELSE creq' = [creq EXCEPT ![r] = afterGetOrCreate(creq[r], <<>>)]
  /\ UNCHANGED <<products, orders, payments, call, cb, removing, now, lastRead, initStock>>

\* addToCart lines 294-315: the line of the product gets the sum, under the
\* second stock check, or a new line is pushed
addToCartItems(req) ==
  LET idx == findIndex(req.items, req.productId)
  IN IF idx > 0
     THEN IF req.stock < req.items[idx].quantity + req.quantity
          THEN [response |-> BadRequestException("Insufficient stock"), items |-> req.items]
          ELSE [response |-> Ok,
                items |-> [req.items EXCEPT ![idx].quantity = @ + req.quantity]]
     ELSE [response |-> Ok,
           items |-> Append(req.items,
                            [productId |-> req.productId, quantity |-> req.quantity])]

\* updateCartItem lines 332-360, with the product row findUnique returns
updateCartItemItems(req, product) ==
  LET idx == findIndex(req.items, req.productId)
  IN IF idx = 0
     THEN [response |-> NotFoundException("Product not found in cart"), items |-> req.items]
     ELSE IF ~product.exists
     THEN [response |-> Ok, items |-> splice(req.items, idx)]
     ELSE IF product.stock < req.quantity
     THEN [response |-> BadRequestException("Insufficient stock"), items |-> req.items]
     ELSE [response |-> Ok, items |-> [req.items EXCEPT ![idx].quantity = req.quantity]]

\* removeFromCart lines 377-384
removeFromCartItems(req) ==
  LET idx == findIndex(req.items, req.productId)
  IN IF idx = 0
     THEN [response |-> NotFoundException("Product not found in cart"), items |-> req.items]
     ELSE [response |-> Ok, items |-> splice(req.items, idx)]

\* what the method does with the items of the cart it holds, up to its
\* cart.update; updateCartItem reads the product here
cartDecide(r) ==
  /\ creq[r].pc = "decide"
  /\ LET req == creq[r]
         d == IF req.op = "addToCart" THEN addToCartItems(req)
              ELSE IF req.op = "updateCartItem"
              THEN updateCartItemItems(req, products[req.productId])
              ELSE removeFromCartItems(req)
     IN creq' = [creq EXCEPT ![r] =
                   IF d.response = Ok
                   THEN [req EXCEPT !.items = d.items, !.pc = "updateCart"]
                   ELSE respond(req, d.response)]
  /\ UNCHANGED <<products, carts, orders, payments, call, cb, removing, now, lastRead, initStock>>

\* cart.update({where: {id: cart.id}, data: {items}}): the whole list is
\* written; P2025 when the row has been deleted since it was read
cartUpdate(r) ==
  /\ creq[r].pc = "updateCart"
  /\ ~CartLocked(keyOf(creq[r]))
  /\ IF creq[r].gone
     THEN /\ creq' = [creq EXCEPT ![r] = respond(creq[r], PrismaError("P2025"))]
          /\ UNCHANGED carts
     ELSE /\ carts' = [carts EXCEPT ![keyOf(creq[r])].items = creq[r].items]
          /\ creq' = [creq EXCEPT ![r] = respond(creq[r], Ok)]
  /\ UNCHANGED <<products, orders, payments, call, cb, removing, now, lastRead, initStock>>

\* migrateGuestCartToUser line 478: findCart({sessionId: guestSessionId})
migrateStart(r, guestSessionId, userId) ==
  /\ creq[r].pc = "idle"
  /\ creq' = [creq EXCEPT ![r] =
       [IdleRequest EXCEPT !.op = "migrateGuestCartToUser", !.userId = userId,
                           !.sessionId = guestSessionId,
                           !.branch = IF ~carts[guestSessionId].exists THEN "noGuest"
                                      ELSE IF carts[guestSessionId].items = <<>>
                                      THEN "emptyGuest" ELSE "merge",
                           !.guestItems = carts[guestSessionId].items,
                           !.pc = "findUser"]]
  /\ UNCHANGED <<products, carts, orders, payments, call, cb, removing, now, lastRead, initStock>>

\* line 479: findCart({userId}); then the three cases of lines 481-497
migrateFindUser(r) ==
  /\ creq[r].pc = "findUser"
  /\ LET req == [creq[r] EXCEPT !.found = carts[creq[r].userId].exists,
                                !.items = carts[creq[r].userId].items]
     IN creq' = [creq EXCEPT ![r] =
          IF req.branch = "noGuest" THEN [req EXCEPT !.pc = "findCart"]
          ELSE IF req.branch = "emptyGuest" THEN [req EXCEPT !.pc = "deleteGuest"]
          ELSE IF req.found THEN [req EXCEPT !.pc = "mergeUpdate"]
          ELSE [req EXCEPT !.pc = "findCart"]]
  /\ UNCHANGED <<products, carts, orders, payments, call, cb, removing, now, lastRead, initStock>>

\* lines 522-526: cart.update of the user's cart with the merged items
migrateUpdate(r) ==
  /\ creq[r].pc = "mergeUpdate"
  /\ ~CartLocked(creq[r].userId)
  /\ LET merged == mergeItems(creq[r].items, creq[r].guestItems)
     IN /\ \A i \in 1..Len(merged) : merged[i].quantity <= MaxCartQty
        /\ carts' = [carts EXCEPT ![creq[r].userId].items = merged]
  /\ creq' = [creq EXCEPT ![r].pc = "deleteGuest"]
  /\ UNCHANGED <<products, orders, payments, call, cb, removing, now, lastRead, initStock>>

\* the requests that hold the cart row of key lose it when the row is deleted
dropHolders(rq, key) ==
  [x \in CartRequests |->
     IF rq[x].pc \in {"decide", "updateCart"} /\ keyOf(rq[x]) = key
     THEN [rq[x] EXCEPT !.gone = TRUE] ELSE rq[x]]

\* (variant: the guest cart is left in place)
migrateDeleteKeepsGuest(r) ==
  /\ creq[r].pc = "deleteGuest"
  /\ creq' = [creq EXCEPT ![r] =
       IF creq[r].branch = "merge" \/ creq[r].found THEN respond(creq[r], Ok)
       ELSE [creq[r] EXCEPT !.pc = "findCart"]]
  /\ UNCHANGED <<products, carts, orders, payments, call, cb, removing, now, lastRead, initStock>>

\* cart.delete({where: {sessionId: guestSessionId}}): at lines 489-491 of an
\* empty guest cart, where P2025 is thrown when the row is gone and otherwise
\* the user's cart is returned or created; at lines 529-533 after the merge,
\* where the error is ignored
migrateDelete(r) ==
  /\ creq[r].pc = "deleteGuest"
  /\ ~CartLocked(creq[r].sessionId)
  /\ LET req == creq[r]
         after == IF req.branch = "merge" \/ req.found THEN respond(req, Ok)
                  ELSE [req EXCEPT !.pc = "findCart"]
     IN IF carts[req.sessionId].exists
        THEN /\ carts' = [carts EXCEPT ![req.sessionId] = NoCart]
             /\ creq' = [dropHolders(creq, req.sessionId) EXCEPT ![r] = after]
        ELSE /\ UNCHANGED carts
             /\ creq' = [creq EXCEPT ![r] =
                   IF req.branch = "merge" THEN after
                   ELSE respond(req, PrismaError("P2025"))]
  /\ UNCHANGED <<products, orders, payments, call, cb, removing, now, lastRead, initStock>>

\* --------------------------------------------------------- ProductsService
\* update, lines 187-215, with a new price
updateProductPrice(p, price) ==
  /\ products[p].exists
  /\ ~ProductLocked(p)
  /\ products[p].price # price
  /\ products' = [products EXCEPT ![p].price = price]
  /\ UNCHANGED <<carts, orders, payments, call, cb, removing, now, lastRead, initStock, creq>>

\* syncCartOnProductDelete, lines 544-559: the product leaves every cart
syncCartOnProductDelete(cs, p) ==
  [k \in CartKeys |->
     IF cs[k].exists
     THEN [cs[k] EXCEPT !.items =
             LET keep == {i \in 1..Len(cs[k].items) : cs[k].items[i].productId # p}
                 RECURSIVE filter(_)
                 filter(n) == IF n = 0 THEN <<>>
                              ELSE IF n \in keep THEN Append(filter(n - 1), cs[k].items[n])
                              ELSE filter(n - 1)
             IN filter(Len(cs[k].items))]
     ELSE cs[k]]

\* remove, lines 217-222: findOne, then the carts are synced
removeSync(p) ==
  /\ products[p].exists
  /\ p \notin removing
  /\ \A k \in CartKeys :
        (carts[k].exists /\ findIndex(carts[k].items, p) > 0) => ~CartLocked(k)
  /\ carts' = syncCartOnProductDelete(carts, p)
  /\ removing' = removing \cup {p}
  /\ UNCHANGED <<products, orders, payments, call, cb, now, lastRead, initStock, creq>>

\* the Order table after product p is deleted: the relation from OrderItem to
\* Product is declared in prisma/schema.prisma; OrderItem.productId is a weak
\* reference and the order items of a deleted product stay as they are
ordersAfterProductDelete(os, p) == os

\* remove, lines 223-225: product.delete
removeDelete(p) ==
  /\ p \in removing
  /\ ~ProductLocked(p)
  /\ products' = [products EXCEPT ![p].exists = FALSE]
  /\ orders' = ordersAfterProductDelete(orders, p)
  /\ removing' = removing \ {p}
  /\ UNCHANGED <<carts, payments, call, cb, now, lastRead, initStock, creq>>

\* ------------------------------------------------ CheckoutService, initiate
GatewayMethods == {"CREDIT_DEBIT_CARD", "PAYKASSMA", "MOBILE_PAYMENT"}
PaymentMethods == {"CASH_ON_DELIVERY"} \cup GatewayMethods

\* (variant: the amount is not taken from the order)
newPaymentWithoutAmount(order, hasUrl) ==
  [exists |-> TRUE, rows |-> 1, status |-> "PENDING", amount |-> 0,
   paidAt |-> 0, hasUrl |-> hasUrl, gatewayResponse |-> NoResponse]

\* the data of payment.create, lines 59-67, 144-155 and 207-218
newPayment(order, hasUrl) ==
  [exists |-> TRUE, rows |-> 1, status |-> "PENDING", amount |-> order.totalAmount,
   paidAt |-> 0, hasUrl |-> hasUrl, gatewayResponse |-> NoResponse]

\* Payment.orderId carries a unique index (the one-to-one relation of
\* prisma/schema.prisma, used by findUnique / update where: {orderId}): a
\* second row for the same order is rejected with P2002
orderIdTaken(ps, orderId) == ps[orderId].exists

\* (variant: the insert goes through although the order has a payment)
insertPaymentAgain(ps, orderId, row) ==
  [ps EXCEPT ![orderId] = [row EXCEPT !.rows = ps[orderId].rows + 1]]

\* the Payment table after prisma.payment.create of row for the order
insertPayment(ps, orderId, row) ==
  IF orderIdTaken(ps, orderId) THEN ps ELSE [ps EXCEPT ![orderId] = row]

\* payment.create in initiatePayment: P2002 reaches the caller
createPayment(c, row) ==
  /\ payments' = insertPayment(payments, call[c].orderId, row)
  /\ IF payments' = payments
     THEN call' = [call EXCEPT ![c].pc = "done", ![c].result = PrismaError("P2002")]
     ELSE call' = [call EXCEPT ![c].pc = "done"]

\* initiatePayment, lines 55-73: cash on delivery, no gateway call
initiateCash(c) ==
  /\ call[c].pc = "created"
  /\ orders[call[c].orderId].paymentMethod = "CASH_ON_DELIVERY"
  /\ createPayment(c, newPayment(orders[call[c].orderId], FALSE))
  /\ UNCHANGED <<products, carts, orders, cb, removing, now, lastRead, initStock, creq>>

\* initiateCardPayment / initiateMobilePayment: the gateway answered with a
\* payment URL, lines 143-155 and 207-218
initiateGateway(c) ==
  /\ call[c].pc = "created"
  /\ orders[call[c].orderId].paymentMethod \in GatewayMethods
  /\ createPayment(c, newPayment(orders[call[c].orderId], TRUE))
  /\ UNCHANGED <<products, carts, orders, cb, removing, now, lastRead, initStock, creq>>

\* (variant: the failure puts the stock of the order's items back)
initiateGatewayFailedRestocks(c) ==
  /\ call[c].pc = "created"
  /\ orders[call[c].orderId].paymentMethod \in GatewayMethods
  /\ call' = [call EXCEPT ![c].pc = "done",
                          ![c].result = BadRequestException("Failed to initiate payment")]
  /\ products' = [p \in Products |->
        [products[p] EXCEPT !.stock = @ + SumSeq(
           [j \in 1..Len(orders[call[c].orderId].orderItems) |->
              IF orders[call[c].orderId].orderItems[j].productId = p
              THEN orders[call[c].orderId].orderItems[j].quantity ELSE 0])]]
  /\ UNCHANGED <<carts, orders, payments, cb, removing, now, lastRead, initStock, creq>>

\* the gateway call failed or returned no URL, lines 123-141 and 197-205
initiateGatewayFailed(c) ==
  /\ call[c].pc = "created"
  /\ orders[call[c].orderId].paymentMethod \in GatewayMethods
  /\ call' = [call EXCEPT ![c].pc = "done",
                          ![c].result = BadRequestException("Failed to initiate payment")]
  /\ UNCHANGED <<products, carts, orders, payments, cb, removing, now, lastRead, initStock, creq>>

\* ------------------------------------------------ CheckoutService, callback
SuccessWords == {"success", "paid", "completed", "approved"}
Gateways == {"paykassma", "konnect", "mobile"}
Handlers == {1, 2}

\* via: the method of CheckoutService the request came in through; status:
\* verificationResult.status
IdleHandler ==
  [pc |-> "idle", via |-> "none", data |-> NoResponse, status |-> "none",
   orderId |-> 0, ret |-> "none"]

\* String.prototype.toLowerCase on the status words a gateway sends
toLowerCase(w) ==
  CASE w = "SUCCESS" -> "success"
    [] w = "Paid" -> "paid"
    [] OTHER -> w

\* PaykassmaService.verifyCallback compares the signature and hands the
\* status on as it came; KonnectService.verifyCallback only looks for an
\* order id, lower-cases the status and calls a missing one 'unknown'
verifyCallback(data, gateway) ==
  IF gateway = "paykassma"
  THEN [success |-> data.signed, orderId |-> data.orderId, status |-> data.status]
  ELSE [success |-> data.orderId # 0, orderId |-> data.orderId,
        status |-> IF data.status = Null THEN "unknown" ELSE toLowerCase(data.status)]

\* (variant: a payment the gateway reports as pending stays PENDING)
paymentStatusOfPending(status) ==
  IF status \in SuccessWords THEN "SUCCESS"
  ELSE IF status = "pending" THEN "PENDING" ELSE "FAILED"

\* lines 266-272
paymentStatusOf(status) == IF status \in SuccessWords THEN "SUCCESS" ELSE "FAILED"

findOrderByNumber(n) ==
  IF \E i \in 1..Len(orders) : orders[i].orderNumber = n
  THEN CHOOSE i \in 1..Len(orders) : orders[i].orderNumber = n
  ELSE 0

\* lines 234-252: verification; a rejected callback returns {success: false},
\* and so does an unsupported gateway, whose BadRequestException is thrown
\* inside the try block
receiveCallback(h, data, gateway) ==
  /\ cb[h].pc = "idle"
  /\ LET v == verifyCallback(data, gateway)
     IN IF gateway \notin Gateways \/ ~v.success \/ v.orderId = 0
        THEN cb' = [cb EXCEPT ![h] = [IdleHandler EXCEPT !.ret = "false"]]
        ELSE cb' = [cb EXCEPT ![h] = [IdleHandler EXCEPT !.pc = "find", !.data = data,
                                                         !.status = v.status,
                                                         !.via = "handlePaymentCallback"]]
  /\ UNCHANGED <<products, carts, orders, payments, call, removing, now, lastRead, initStock, creq>>

\* (variant: only a missing order ends the handling)
callbackFindWithoutPayment(h) ==
  /\ cb[h].pc = "find"
  /\ LET i == findOrderByNumber(cb[h].data.orderId)
     IN IF i = 0
        THEN cb' = [cb EXCEPT ![h] = [IdleHandler EXCEPT !.ret = "false"]]
        ELSE cb' = [cb EXCEPT ![h].pc = "updatePayment", ![h].orderId = i]
  /\ UNCHANGED <<products, carts, orders, payments, call, removing, now, lastRead, initStock, creq>>

\* lines 254-263: order.findUnique by order number, with its payment
callbackFind(h) ==
  /\ cb[h].pc = "find"
  /\ LET i == findOrderByNumber(cb[h].data.orderId)
     IN IF i = 0 \/ ~payments[i].exists
        THEN cb' = [cb EXCEPT ![h] = [IdleHandler EXCEPT !.ret = "false"]]
        ELSE cb' = [cb EXCEPT ![h].pc = "updatePayment", ![h].orderId = i]
  /\ UNCHANGED <<products, carts, orders, payments, call, removing, now, lastRead, initStock, creq>>

\* the row written by payment.update, lines 274-282
paymentAfterCallback(row, data, status, time) ==
  [row EXCEPT !.status = paymentStatusOf(status),
              !.gatewayResponse = data,
              !.paidAt = IF paymentStatusOf(status) = "SUCCESS" THEN time ELSE 0]

\* (variant: the result repeats the payment outcome, {success: false} for a
\* FAILED payment)
callbackUpdatePaymentReportsOutcome(h) ==
  /\ cb[h].pc = "updatePayment"
  /\ payments' = [payments EXCEPT ![cb[h].orderId] =
                    paymentAfterCallback(@, cb[h].data, cb[h].status, now)]
  /\ IF paymentStatusOf(cb[h].status) = "SUCCESS"
     THEN cb' = [cb EXCEPT ![h].pc = "updateOrder"]
     ELSE cb' = [cb EXCEPT ![h] = [IdleHandler EXCEPT !.ret = "false"]]
  /\ UNCHANGED <<products, carts, orders, call, removing, now, lastRead, initStock, creq>>

\* lines 274-282 and, for a FAILED payment, the return at line 296
callbackUpdatePayment(h) ==
  /\ cb[h].pc = "updatePayment"
  /\ payments' = [payments EXCEPT ![cb[h].orderId] =
                    paymentAfterCallback(@, cb[h].data, cb[h].status, now)]
  /\ IF paymentStatusOf(cb[h].status) = "SUCCESS"
     THEN cb' = [cb EXCEPT ![h].pc = "updateOrder"]
     ELSE cb' = [cb EXCEPT ![h] = [IdleHandler EXCEPT !.ret = "true"]]
  /\ UNCHANGED <<products, carts, orders, call, removing, now, lastRead, initStock, creq>>

\* (variant: the update also re-derives the total from the live prices)
confirmedRepriced(order) ==
  [order EXCEPT !.status = "CONFIRMED",
                !.totalAmount = SumSeq([j \in 1..Len(order.orderItems) |->
                    products[order.orderItems[j].productId].price
                      * order.orderItems[j].quantity])]

\* the row written by order.update, lines 286-289: data: {status: 'CONFIRMED'}
confirmed(order) == [order EXCEPT !.status = "CONFIRMED"]

\* (variant: the update has no where clause and confirms every order)
callbackUpdateOrderOfAll(h) ==
  /\ cb[h].pc = "updateOrder"
  /\ orders' = [i \in 1..Len(orders) |-> confirmed(orders[i])]
  /\ cb' = [cb EXCEPT ![h] = [IdleHandler EXCEPT !.ret = "true"]]
  /\ UNCHANGED <<products, carts, payments, call, removing, now, lastRead, initStock, creq>>

\* lines 284-296: order.update to CONFIRMED, {success: true}
callbackUpdateOrder(h) ==
  /\ cb[h].pc = "updateOrder"
  /\ orders' = [orders EXCEPT ![cb[h].orderId] = confirmed(@)]
  /\ cb' = [cb EXCEPT ![h] = [IdleHandler EXCEPT !.ret = "true"]]
  /\ UNCHANGED <<products, carts, payments, call, removing, now, lastRead, initStock, creq>>

\* lines 297-300: payment.update or order.update throws (the database is
\* unreachable, the request is cut off); the catch returns {success: false}
\* and what was written before stays written
callbackFails(h) ==
  /\ cb[h].pc \in {"updatePayment", "updateOrder"}
  /\ cb' = [cb EXCEPT ![h] = [IdleHandler EXCEPT !.ret = "false"]]
  /\ UNCHANGED <<products, carts, orders, payments, call, removing, now, lastRead, initStock, creq>>

\* KonnectService.verifyWebhookSignature: without a configured secret every
\* webhook passes; with one, the signature header must be the HMAC of the body
verifyWebhookSignature(data, secretConfigured) ==
  IF ~secretConfigured THEN TRUE ELSE data.signed

\* handleKonnectWebhook, lines 303-318: signature check, then the callback
\* path with gateway konnect
receiveKonnectWebhook(h, data, secretConfigured) ==
  /\ cb[h].pc = "idle"
  /\ IF ~verifyWebhookSignature(data, secretConfigured)
     THEN cb' = [cb EXCEPT ![h] = [IdleHandler EXCEPT !.ret = "false"]]
     ELSE LET v == verifyCallback(data, "konnect")
          IN IF ~v.success \/ v.orderId = 0
             THEN cb' = [cb EXCEPT ![h] = [IdleHandler EXCEPT !.ret = "false"]]
             ELSE cb' = [cb EXCEPT ![h] = [IdleHandler EXCEPT !.pc = "find", !.data = data,
                                                              !.status = v.status,
                                                              !.via = "handleKonnectWebhook"]]
  /\ UNCHANGED <<products, carts, orders, payments, call, removing, now, lastRead, initStock, creq>>

\* handleMockPaymentSuccess, lines 363-370: the order with its payment
mockFind(h, orderId) ==
  /\ cb[h].pc = "idle"
  /\ IF orderId \notin 1..Len(orders)
     THEN cb' = [cb EXCEPT ![h] = [IdleHandler EXCEPT !.ret = "error"]]
     ELSE cb' = [cb EXCEPT ![h] =
            [IdleHandler EXCEPT !.pc = IF payments[orderId].exists
                                       THEN "mockUpdate" ELSE "mockCreate",
                                !.via = "handleMockPaymentSuccess",
                                !.data = MockResponse, !.orderId = orderId]]
  /\ UNCHANGED <<products, carts, orders, payments, call, removing, now, lastRead, initStock, creq>>

\* the row written by payment.update, lines 375-383
paymentAfterMock(row, time) ==
  [row EXCEPT !.status = "SUCCESS", !.paidAt = time, !.gatewayResponse = MockResponse]

\* lines 373-383: the order had a payment when it was read
mockUpdatePayment(h) ==
  /\ cb[h].pc = "mockUpdate"
  /\ payments' = [payments EXCEPT ![cb[h].orderId] = paymentAfterMock(@, now)]
  /\ cb' = [cb EXCEPT ![h].pc = "mockOrder"]
  /\ UNCHANGED <<products, carts, orders, call, removing, now, lastRead, initStock, creq>>

\* lines 384-397: the order had no payment when it was read; payment.create
\* throws when one has been created since
mockCreatePayment(h) ==
  /\ cb[h].pc = "mockCreate"
  /\ payments' = insertPayment(payments, cb[h].orderId,
        paymentAfterMock(newPayment(orders[cb[h].orderId], FALSE), now))
  /\ IF payments' = payments
     THEN cb' = [cb EXCEPT ![h] = [IdleHandler EXCEPT !.ret = "error"]]
     ELSE cb' = [cb EXCEPT ![h].pc = "mockOrder"]
  /\ UNCHANGED <<products, carts, orders, call, removing, now, lastRead, initStock, creq>>

\* lines 400-412: order.update to CONFIRMED
mockUpdateOrder(h) ==
  /\ cb[h].pc = "mockOrder"
  /\ orders' = [orders EXCEPT ![cb[h].orderId] = confirmed(@)]
  /\ cb' = [cb EXCEPT ![h] = [IdleHandler EXCEPT !.ret = "true"]]
  /\ UNCHANGED <<products, carts, payments, call, removing, now, lastRead, initStock, creq>>

\* time passes between two readings of new Date()
tick ==
  /\ now < MaxTime
  /\ now' = now + 1
  /\ UNCHANGED <<products, carts, orders, payments, call, cb, removing, lastRead, initStock, creq>>

\* ------------------------------------------------------------ order reads
OrderStatuses == {"PENDING", "CONFIRMED", "DELIVERED"}

\* OrdersService.updateOrderStatus, lines 643-666
updateOrderStatus(orderId, status) ==
  /\ orderId \in 1..Len(orders)
  /\ orders[orderId].status # status
  /\ orders' = [orders EXCEPT ![orderId].status = status]
  /\ UNCHANGED <<products, carts, payments, call, cb, removing, now, lastRead, initStock, creq>>

\* (variant: the comparison without the guards against a null identity)
isOwnerOfEqualFields(order, userId, sessionId) ==
  \/ order.userId = userId
  \/ order.sessionId = sessionId

\* lines 473-475 and 342-344
isOwner(order, userId, sessionId) ==
  \/ (userId # Null /\ order.userId = userId)
  \/ (sessionId # Null /\ order.sessionId = sessionId)

NotFound(orderId) ==
  [class |-> "NotFoundException", orderId |-> orderId, order |-> <<>>, payment |-> <<>>]

\* OrdersService.getOrder, lines 452-482, on the order table os
getOrder(os, orderId, userId, sessionId) ==
  IF orderId \notin 1..Len(os) THEN NotFound(orderId)
  ELSE IF ~isOwner(os[orderId], userId, sessionId) THEN NotFound(orderId)
  ELSE [class |-> "ok", orderId |-> orderId, order |-> <<os[orderId]>>, payment |-> <<>>]

\* CheckoutService.getPaymentStatus, lines 323-355, on the tables os and ps
getPaymentStatus(os, ps, orderId, userId, sessionId) ==
  IF orderId \notin 1..Len(os) THEN NotFound(orderId)
  ELSE IF ~isOwner(os[orderId], userId, sessionId) THEN NotFound(orderId)
  ELSE [class |-> "ok", orderId |-> orderId,
        order |-> <<[orderStatus |-> os[orderId].status]>>,
        payment |-> <<[paymentStatus |-> IF ps[orderId].exists THEN ps[orderId].status
                                         ELSE "PENDING",
                       hasUrl |-> ps[orderId].exists /\ ps[orderId].hasUrl]>>]

NoRead == [op |-> "none", userId |-> Null, sessionId |-> Null, response |-> NotFound(0)]

readOrder(orderId, userId, sessionId) ==
  /\ lastRead' = [op |-> "getOrder", userId |-> userId, sessionId |-> sessionId,
                  response |-> getOrder(orders, orderId, userId, sessionId)]
  /\ UNCHANGED <<products, carts, orders, payments, call, cb, removing, now, initStock, creq>>

readPaymentStatus(orderId, userId, sessionId) ==
  /\ lastRead' = [op |-> "getPaymentStatus", userId |-> userId, sessionId |-> sessionId,
                  response |-> getPaymentStatus(orders, payments, orderId, userId, sessionId)]
  /\ UNCHANGED <<products, carts, orders, payments, call, cb, removing, now, initStock, creq>>

\* ---------------------------------------------------------- specifications
\* who can call: an authenticated user or a guest session (OptionalAuthGuard
\* sets one of the two), or a request that carries neither
Callers ==
  {[userId |-> u, sessionId |-> Null] : u \in Users}
    \cup {[userId |-> Null, sessionId |-> s] : s \in Sessions}
Anonymous == [userId |-> Null, sessionId |-> Null]

Items == [productId : Products, quantity : 1..MaxQty]
UniqueProducts(items) ==
  \A i, j \in 1..Len(items) : items[i].productId = items[j].productId => i = j
CartContents ==
  {t \in {<<>>} \cup {<<i>> : i \in Items} \cup {<<i, j>> : i, j \in Items} :
     UniqueProducts(t)}

EmptyDb ==
  /\ orders = <<>>
  /\ payments = <<>>
  /\ call = [c \in Calls |-> IdleCall]
  /\ cb = [h \in Handlers |-> IdleHandler]
  /\ removing = {}
  /\ now = 1
  /\ lastRead = NoRead
  /\ creq = [r \in CartRequests |-> IdleRequest]

createOrderStep(c, callers, methods) ==
  \/ \E id \in callers : StartCreateOrder(c, id.userId, id.sessionId)
  \/ TxRead(c)
  \/ TxDecrement(c)
  \/ \E n \in OrderNumbers, m \in methods : TxInsert(c, n, m)
  \/ TxClear(c)
  \/ TxCommit(c)
  \/ TxTimeout(c)

\* --- SpecRace: every caller holds one unit of p1 in the cart and all of
\* them check out at once
InitRace ==
  /\ EmptyDb
  /\ products \in {ps \in [Products -> [exists : {TRUE}, price : {1}, stock : 0..MaxStock]] :
                     ps["p2"].stock = MaxStock}
  /\ carts = [k \in CartKeys |->
                cartRow(k, <<[productId |-> "p1", quantity |-> 1]>>)]
  /\ initStock = [p \in Products |-> products[p].stock]

NextRace ==
  \E c \in Calls :
     createOrderStep(c, {IF c = 1 THEN [userId |-> "u1", sessionId |-> Null]
                         ELSE IF c = 2 THEN [userId |-> "u2", sessionId |-> Null]
                         ELSE [userId |-> Null, sessionId |-> "s1"]},
                     {"CASH_ON_DELIVERY"})

SpecRace == InitRace /\ [][NextRace]_vars

\* --- SpecOrder: two concurrent createOrder calls, by the same owner or by
\* two owners, on carts of every content, while the price of a product changes
OrderCalls == {1, 2}
OrderCallers == {x \in Callers : x.userId # "u2"}

InitOrder ==
  /\ EmptyDb
  /\ products = [p \in Products |-> [exists |-> TRUE, price |-> 1, stock |-> MaxStock]]
  /\ carts \in {[k \in CartKeys |-> IF k = "u2" THEN NoCart ELSE cartRow(k, f[k])] :
                  f \in [{"u1", "s1"} -> CartContents]}
  /\ initStock = [p \in Products |-> products[p].stock]

NextOrder ==
  \/ \E c \in OrderCalls : createOrderStep(c, OrderCallers, {"CASH_ON_DELIVERY"})
  \/ \E price \in Prices : updateProductPrice("p1", price)

SpecOrder == InitOrder /\ [][NextOrder]_vars

\* --- SpecShop: a createOrder call of a user or a guest while both carts
\* are edited, the guest cart is merged into the user's, and product p2 is
\* removed from the catalog
ShopCalls == {1}
ShopKeys == {"u1", "s1"}

InitShop ==
  /\ EmptyDb
  /\ products = [p \in Products |-> [exists |-> TRUE, price |-> 1, stock |-> MaxStock]]
  /\ carts = [k \in CartKeys |-> NoCart]
  /\ initStock = [p \in Products |-> products[p].stock]

cartStep(prods) ==
  \/ \E k \in ShopKeys, p \in prods, q \in 1..MaxQty : addToCart(k, p, q)
  \/ \E k \in ShopKeys, p \in prods, q \in 1..MaxQty : updateCartItem(k, p, q)
  \/ \E k \in ShopKeys, p \in prods : removeFromCart(k, p)
  \/ migrateGuestCartToUser("s1", "u1")

removeStep ==
  \/ removeSync("p2")
  \/ removeDelete("p2")

NextShop ==
  \/ \E c \in ShopCalls : createOrderStep(c, OrderCallers, {"CASH_ON_DELIVERY"})
  \/ \E c \in ShopCalls : ReturnOrder(c)
  \/ cartStep(Products)
  \/ removeStep

SpecShop == InitShop /\ [][NextShop]_vars


\* the order ids a request can name, one of them never assigned
OrderIds == 1..Cardinality(Calls)

\* --- callbacks: what a gateway, or anyone who knows the URL, can post
CallbackData(signs) ==
  [orderId : {0} \cup OrderNumbers, status : {"success", "failed"}, signed : signs]

callbackStep(h, signs, gateways) ==
  \/ \E data \in CallbackData(signs), g \in gateways : receiveCallback(h, data, g)
  \/ callbackFind(h)
  \/ callbackUpdatePayment(h)
  \/ callbackUpdateOrder(h)

initiateStep(c) ==
  \/ initiateCash(c)
  \/ initiateGateway(c)
  \/ initiateGatewayFailed(c)

\* GET /checkout/success?mock=true&orderId=...: public, for any order id
mockStep(h) ==
  \/ \E id \in OrderIds : mockFind(h, id)
  \/ mockUpdatePayment(h)
  \/ mockCreatePayment(h)
  \/ mockUpdateOrder(h)

webhookStep(h) ==
  \E data \in CallbackData(BOOLEAN), secretConfigured \in BOOLEAN :
     receiveKonnectWebhook(h, data, secretConfigured)

\* --- SpecLife: one order of user u1 from creation on, through payment
\* initiation, callbacks and status updates, while the price of its product
\* changes, the product is removed and the carts are edited
InitLife ==
  /\ EmptyDb
  /\ products = [p \in Products |-> [exists |-> TRUE, price |-> 1, stock |-> MaxStock]]
  /\ carts = [k \in CartKeys |-> IF k = "u1"
                THEN cartRow("u1", <<[productId |-> "p1", quantity |-> MaxStock]>>)
                ELSE NoCart]
  /\ initStock = [p \in Products |-> products[p].stock]

NextLife ==
  \/ createOrderStep(1, {[userId |-> "u1", sessionId |-> Null]}, PaymentMethods)
  \/ initiateStep(1)
  \/ callbackStep(1, {TRUE}, {"paykassma"})
  \/ \E status \in OrderStatuses : updateOrderStatus(1, status)
  \/ \E price \in Prices : updateProductPrice("p1", price)
  \/ removeSync("p1")
  \/ removeDelete("p1")
  \/ cartStep({"p1"})

SpecLife == InitLife /\ [][NextLife]_vars

\* --- SpecPay: one gateway-paid order of user u1 and two deliveries of
\* callbacks handled at once, while time passes and the order status is
\* updated by an administrator
PayCart == cartRow("u1", <<[productId |-> "p1", quantity |-> 1]>>)

InitPay ==
  /\ EmptyDb
  /\ products = [p \in Products |-> [exists |-> TRUE, price |-> 1, stock |-> MaxStock]]
  /\ carts = [k \in CartKeys |-> IF k = "u1" THEN PayCart ELSE NoCart]
  /\ initStock = [p \in Products |-> products[p].stock]

NextPay ==
  \/ createOrderStep(1, {[userId |-> "u1", sessionId |-> Null]}, PaymentMethods)
  \/ initiateStep(1)
  \/ \E h \in Handlers : callbackStep(h, BOOLEAN, Gateways)
  \/ \E status \in OrderStatuses : updateOrderStatus(1, status)
  \/ tick

SpecPay == InitPay /\ [][NextPay]_vars

\* --- SpecGateway: one order of user u1 and two requests handled at once,
\* each a gateway callback, a Konnect webhook or a mock confirmation, some of
\* them failing half way
NextGateway ==
  \/ createOrderStep(1, {[userId |-> "u1", sessionId |-> Null]}, PaymentMethods)
  \/ initiateStep(1)
  \/ \E h \in Handlers : callbackStep(h, BOOLEAN, Gateways)
  \/ \E h \in Handlers : callbackFails(h)
  \/ \E h \in Handlers : webhookStep(h)
  \/ \E h \in Handlers : mockStep(h)

SpecGateway == InitPay /\ [][NextGateway]_vars

\* --- SpecRead: the orders of user u1 and of guest s1, read by every identity

InitRead ==
  /\ EmptyDb
  /\ products = [p \in Products |-> [exists |-> TRUE, price |-> 1, stock |-> MaxStock]]
  /\ carts = [k \in CartKeys |-> IF k \in ShopKeys THEN cartRow(k, PayCart.items) ELSE NoCart]
  /\ initStock = [p \in Products |-> products[p].stock]

NextRead ==
  \/ \E c \in OrderCalls : createOrderStep(c, OrderCallers, PaymentMethods)
  \/ \E c \in OrderCalls : initiateStep(c)
  \/ \E id \in OrderIds, x \in Callers \cup {Anonymous} :
        readOrder(id, x.userId, x.sessionId)
  \/ \E id \in OrderIds, x \in Callers \cup {Anonymous} :
        readPaymentStatus(id, x.userId, x.sessionId)

SpecRead == InitRead /\ [][NextRead]_vars

\* --- SpecCallback: the orders of user u1 and of guest s1, one unit of p1
\* each, placed and waiting for their gateway payment (the second one with
\* or without its Payment row), while two requests are handled at once: a
\* gateway callback, for a gateway the service knows or not, or a Konnect
\* webhook, some of them failing half way
placedOrder(userId, sessionId, n) ==
  LET productUpdates ==
        <<[productId |-> "p1", quantity |-> 1, currentStock |-> MaxStock, price |-> 1]>>
  IN [userId |-> userId, sessionId |-> sessionId, orderNumber |-> n,
      status |-> "PENDING", paymentMethod |-> "PAYKASSMA",
      totalAmount |-> totalAmount(productUpdates),
      orderItems |-> orderItems(productUpdates)]

InitCallback ==
  /\ orders = <<placedOrder("u1", Null, 1), placedOrder(Null, "s1", 2)>>
  /\ payments \in {<<newPayment(orders[1], TRUE), x>> :
                      x \in {NoPayment, newPayment(orders[2], TRUE)}}
  /\ products = [p \in Products |->
                   [exists |-> TRUE, price |-> 1,
                    stock |-> IF p = "p1" THEN MaxStock - 2 ELSE MaxStock]]
  /\ carts = [k \in CartKeys |->
                IF k \in ShopKeys THEN cartRow(k, <<>>) ELSE NoCart]
  /\ call = [c \in Calls |-> IdleCall]
  /\ cb = [h \in Handlers |-> IdleHandler]
  /\ removing = {}
  /\ now = 1
  /\ lastRead = NoRead
  /\ creq = [r \in CartRequests |-> IdleRequest]
  /\ initStock = [p \in Products |-> MaxStock]

NextCallback ==
  \/ \E h \in Handlers : callbackStep(h, BOOLEAN, Gateways \cup {"stripe"})
  \/ \E h \in Handlers : callbackFails(h)
  \/ \E h \in Handlers : webhookStep(h)

SpecCallback == InitCallback /\ [][NextCallback]_vars

\* --- SpecStatus: one placed order waiting for its gateway payment, and one
\* callback after the other, with any status word, in lower case or not, or
\* with no status at all, through any of the gateways
StatusData ==
  [orderId : {0} \cup OrderNumbers,
   status : SuccessWords \cup {"failed", "pending", "unknown", "SUCCESS", "Paid", Null},
   signed : BOOLEAN]

InitStatus ==
  /\ orders = <<placedOrder("u1", Null, 1)>>
  /\ payments = <<newPayment(orders[1], TRUE)>>
  /\ products = [p \in Products |-> [exists |-> TRUE, price |-> 1, stock |-> MaxStock]]
  /\ carts = [k \in CartKeys |-> NoCart]
  /\ call = [c \in Calls |-> IdleCall]
  /\ cb = [h \in Handlers |-> IdleHandler]
  /\ removing = {}
  /\ now = 1
  /\ lastRead = NoRead
  /\ creq = [r \in CartRequests |-> IdleRequest]
  /\ initStock = [p \in Products |-> MaxStock]

NextStatus ==
  \/ \E data \in StatusData, g \in Gateways : receiveCallback(1, data, g)
  \/ callbackFind(1)
  \/ callbackUpdatePayment(1)
  \/ callbackUpdateOrder(1)

SpecStatus == InitStatus /\ [][NextStatus]_vars

\* --- cart requests, await by await
cartRequestStep(r, callers, prods, quantities) ==
  \/ \E x \in callers, p \in prods, q \in quantities :
        addToCartStart(r, x.userId, x.sessionId, p, q)
  \/ \E x \in callers, p \in prods, q \in quantities :
        updateCartItemStart(r, x.userId, x.sessionId, p, q)
  \/ \E x \in callers, p \in prods : removeFromCartStart(r, x.userId, x.sessionId, p)
  \/ cartDecide(r)
  \/ cartUpdate(r)

getOrCreateStep(r) ==
  \/ getOrCreateCartFind(r)
  \/ getOrCreateCartCreate(r)

\* AuthService.register / login with a guestSessionId
migrateStep(r, sessions, users) ==
  \/ \E s \in sessions, u \in users : migrateStart(r, s, u)
  \/ migrateFindUser(r)
  \/ migrateUpdate(r)
  \/ migrateDelete(r)

\* --- SpecMerge: guest session s1 logs in or registers as u1 or u2, once or
\* several times, one request after the other; the guest cart and the cart of
\* u1 hold any contents or do not exist, u2 has no cart yet
InitMerge ==
  /\ EmptyDb
  /\ products = [p \in Products |-> [exists |-> TRUE, price |-> 1, stock |-> MaxStock]]
  /\ carts \in {[k \in CartKeys |-> IF k = "u2" THEN NoCart ELSE f[k]] :
                  f \in [{"u1", "s1"} ->
                          {NoCart} \cup {cartRow("u1", t) : t \in CartContents}
                                   \cup {cartRow("s1", t) : t \in CartContents}]}
  /\ carts["u1"].sessionId = Null
  /\ carts["s1"].userId = Null
  /\ initStock = [p \in Products |-> products[p].stock]

NextMerge ==
  \/ migrateStep(1, Sessions, Users)
  \/ getOrCreateStep(1)

SpecMerge == InitMerge /\ [][NextMerge]_vars

\* --- SpecCart: a user, a guest and a request without identity work on
\* product p1 in their carts with two requests in flight at once, among them
\* the guest's login as the user; p1 has any stock, none included
InitCart ==
  /\ EmptyDb
  /\ products \in {ps \in [Products -> [exists : {TRUE}, price : {1}, stock : 0..MaxStock]] :
                     ps["p2"].stock = MaxStock}
  /\ carts = [k \in CartKeys |-> NoCart]
  /\ initStock = [p \in Products |-> products[p].stock]

NextCart ==
  \/ \E r \in CartRequests :
        cartRequestStep(r, {x \in Callers : x.userId # "u2"} \cup {Anonymous},
                        {"p1"}, 0..MaxQty)
  \/ \E r \in CartRequests : getOrCreateStep(r)
  \/ \E r \in CartRequests : migrateStep(r, Sessions, {"u1"})

SpecCart == InitCart /\ [][NextCart]_vars

\* --- SpecOwner: the cart of user u1 holds a unit of p2; u1 and guest s1 put
\* p1 into their carts, change and remove it and the guest logs in as u1,
\* one cart request at a time, while a createOrder call of u1 is in flight
InitOwner ==
  /\ EmptyDb
  /\ products = [p \in Products |-> [exists |-> TRUE, price |-> 1, stock |-> MaxStock]]
  /\ carts = [k \in CartKeys |->
                IF k = "u1" THEN cartRow(k, <<[productId |-> "p2", quantity |-> 1]>>)
                ELSE NoCart]
  /\ initStock = [p \in Products |-> products[p].stock]

NextOwner ==
  \/ createOrderStep(1, {[userId |-> "u1", sessionId |-> Null]}, {"CASH_ON_DELIVERY"})
  \/ cartRequestStep(1, {x \in Callers : x.userId # "u2"}, {"p1"}, 0..MaxQty)
  \/ getOrCreateStep(1)
  \/ migrateStep(1, Sessions, {"u1"})

SpecOwner == InitOwner /\ [][NextOwner]_vars

\* --- SpecLines: user u1, whose cart holds any contents or does not exist
\* yet, sends two cart requests at once, each on either product
InitLines ==
  /\ EmptyDb
  /\ products = [p \in Products |-> [exists |-> TRUE, price |-> 1, stock |-> MaxStock]]
  /\ carts \in {[k \in CartKeys |-> IF k = "u1" THEN row ELSE NoCart] :
                  row \in {NoCart} \cup {cartRow("u1", t) : t \in CartContents}}
  /\ initStock = [p \in Products |-> products[p].stock]

NextLines ==
  \/ \E r \in CartRequests :
        cartRequestStep(r, {[userId |-> "u1", sessionId |-> Null]}, Products, 1..MaxQty)
  \/ \E r \in CartRequests : getOrCreateStep(r)

SpecLines == InitLines /\ [][NextLines]_vars

\* --- SpecLogin: guest session s1, whose cart holds one unit of p1, logs in
\* as user u1 with two login requests at once, while u1, whose cart holds
\* lines of p2 at most or does not exist yet, puts p2 into the cart
InitLogin ==
  /\ EmptyDb
  /\ products = [p \in Products |-> [exists |-> TRUE, price |-> 1, stock |-> MaxStock]]
  /\ carts \in {[k \in CartKeys |->
                  IF k = "s1" THEN cartRow(k, <<[productId |-> "p1", quantity |-> 1]>>)
                  ELSE IF k = "u1" THEN row ELSE NoCart] :
                  row \in {NoCart, cartRow("u1", <<>>)}
                          \cup {cartRow("u1", <<[productId |-> "p2", quantity |-> q]>>) :
                                  q \in 1..MaxQty}}
  /\ initStock = [p \in Products |-> products[p].stock]

NextLogin ==
  \/ \E r \in CartRequests : migrateStep(r, Sessions, {"u1"})
  \/ \E r \in CartRequests : getOrCreateStep(r)
  \/ \E r \in CartRequests :
        cartRequestStep(r, {[userId |-> "u1", sessionId |-> Null]}, {"p2"}, 1..MaxQty)

SpecLogin == InitLogin /\ [][NextLogin]_vars

\* --- SpecBounded: the user's cart holds p1 then p2 and the guest's cart p2
\* then p1; both check out at once. A call that has started keeps running:
\* the event loop resumes it when its query returns, and the timer of its
\* transaction fires when the query does not return, hence weak fairness on
\* the steps of each call (not on its start, which is the client's choice)
InitBounded ==
  /\ EmptyDb
  /\ products \in [Products -> [exists : {TRUE}, price : {1}, stock : 1..MaxStock]]
  /\ carts \in {[k \in CartKeys |->
                  IF k = "u1"
                  THEN cartRow(k, <<[productId |-> "p1", quantity |-> q1],
                                    [productId |-> "p2", quantity |-> q2]>>)
                  ELSE IF k = "s1"
                  THEN cartRow(k, <<[productId |-> "p2", quantity |-> q1],
                                    [productId |-> "p1", quantity |-> q2]>>)
                  ELSE NoCart] : q1, q2 \in 1..MaxQty}
  /\ initStock = [p \in Products |-> products[p].stock]

NextBounded ==
  \E c \in OrderCalls : createOrderStep(c, {IF c = 1 THEN [userId |-> "u1", sessionId |-> Null]
                           ELSE [userId |-> Null, sessionId |-> "s1"]},
                       {"CASH_ON_DELIVERY"})

SpecBounded ==
  /\ InitBounded
  /\ [][NextBounded]_vars
  /\ \A c \in OrderCalls :
       WF_vars(\/ TxRead(c)
               \/ TxDecrement(c)
               \/ \E n \in OrderNumbers : TxInsert(c, n, "CASH_ON_DELIVERY")
               \/ TxClear(c)
               \/ TxCommit(c)
               \/ TxTimeout(c))

\* ------------------------------------------------------------------ claims
IsFinished(c) == call[c].pc \in {"created", "done"}
Succeeded(c) == call[c].result = Ok
InsufficientAtRead == BadRequestException("Insufficient stock")
StockChanged == BadRequestException("Stock insufficient. Another purchase may have occurred.")
LostStock(c) == call[c].result \in {InsufficientAtRead, StockChanged}
NumSucceeded == Cardinality({c \in Calls : Succeeded(c)})
NumLostStock == Cardinality({c \in Calls : LostStock(c)})

\* C1: with stock N of p1 and M > N concurrent createOrder calls by distinct
\* owners whose carts hold one unit of p1, the stock taken never exceeds N
\* and never more than N calls succeed under any interleaving; once all the
\* calls have ended, and none was aborted for a reason other than stock (a
\* transaction timeout or an order number collision), exactly N have
\* succeeded and M - N have failed.
C1_NoOverselling ==
  LET N == initStock["p1"]
      M == Cardinality(Calls)
  IN /\ products["p1"].stock >= 0
     /\ N - products["p1"].stock <= N
     /\ NumSucceeded <= N
     /\ NumSucceeded = N - products["p1"].stock
     /\ ((\A c \in Calls : IsFinished(c) /\ (Succeeded(c) \/ LostStock(c))) /\ M > N)
          => (NumSucceeded = N /\ NumLostStock = M - N)

\* two callers raced for the last unit: one has it, one lost it at write time
C1_Witness ==
  /\ initStock["p1"] = 1
  /\ \A c \in Calls : IsFinished(c)
  /\ NumSucceeded = 1
  /\ \E c \in Calls : call[c].result = StockChanged
  /\ products["p1"].stock = 0

QuantityOf(order, p) ==
  SumSeq([j \in 1..Len(order.orderItems) |->
            IF order.orderItems[j].productId = p THEN order.orderItems[j].quantity ELSE 0])
OrderedQuantity(p) == SumSeq([i \in 1..Len(orders) |-> QuantityOf(orders[i], p)])

\* C2: no product's stock is ever negative, and what has left the stock of a
\* product is exactly the quantity of that product in the items of the
\* committed orders.
C2_StockAccounting ==
  \A p \in Products :
    /\ products[p].stock >= 0
    /\ initStock[p] - products[p].stock = OrderedQuantity(p)

\* two committed orders, one of them with two line items and a quantity of 2
C2_Witness ==
  /\ Len(orders) = 2
  /\ \E i \in 1..Len(orders) :
       /\ Len(orders[i].orderItems) = 2
       /\ \E j \in 1..2 : orders[i].orderItems[j].quantity = 2

CommitStep(c) == call[c].pc = "commit" /\ call'[c].pc = "created"

\* C3: a createOrder call that fails leaves no partial effect: only the
\* commit step of a call changes products, orders, payments or carts; every
\* other step of every call, the failing one included, changes none of them.
C3_NoPartialEffect ==
  [][(call' # call /\ ~(\E c \in Calls : CommitStep(c)))
       => UNCHANGED <<products, orders, payments, carts>>]_vars

\* a call was aborted by a zero-row decrement after it had decremented an
\* earlier item of its cart, and nothing is missing from the stock
C3_Witness ==
  /\ \E c \in Calls : call[c].result = StockChanged /\ call[c].nDec >= 1
  /\ \A p \in Products : initStock[p] - products[p].stock = OrderedQuantity(p)

\* C4 (the claim as stated): a call that lost the stock to a concurrent
\* purchaser ends with an error of another class than the validation error
\* raised for an empty cart.
C4_ConflictClass ==
  \A c \in Calls :
    call[c].result = StockChanged
      => call[c].result.class # BadRequestException("Cart is empty").class

OrderTotalsConsistent ==
  \A i \in 1..Len(orders) :
    /\ orders[i].totalAmount =
         SumSeq([j \in 1..Len(orders[i].orderItems) |-> orders[i].orderItems[j].totalPrice])
    /\ \A j \in 1..Len(orders[i].orderItems) :
         orders[i].orderItems[j].totalPrice =
           orders[i].orderItems[j].unitPrice * orders[i].orderItems[j].quantity

CommitSnapshots(c) ==
  LET o == orders'[Len(orders')]
  IN /\ Len(orders') = Len(orders) + 1
     /\ Len(o.orderItems) = Len(call[c].items)
     /\ \A j \in 1..Len(o.orderItems) :
          /\ o.orderItems[j].productId = call[c].items[j].productId
          /\ o.orderItems[j].quantity = call[c].items[j].quantity
          /\ o.orderItems[j].unitPrice = call[c].productUpdates[j].price

\* C6: in every committed order totalAmount is the sum of the items'
\* totalPrice and every totalPrice is unitPrice * quantity; the order a call
\* commits has one item per line item of the cart it read, with that line's
\* quantity and the price the call read in its transaction.
C6_Totals ==
  [][OrderTotalsConsistent' /\ (\A c \in Calls : CommitStep(c) => CommitSnapshots(c))]_vars

\* an order with two items, one of quantity 2, whose unit price is no longer
\* the price of the product
C6_Witness ==
  \E i \in 1..Len(orders) :
    /\ Len(orders[i].orderItems) = 2
    /\ \E j \in 1..2 :
         /\ orders[i].orderItems[j].quantity = 2
         /\ orders[i].orderItems[j].unitPrice # products[orders[i].orderItems[j].productId].price

NoLiveItem(key) ==
  \A i \in 1..Len(carts[key].items) : ~products[carts[key].items[i].productId].exists

\* C7: a createOrder call that finds the owner's cart missing, without line
\* items, or with line items that all reference deleted products ends at
\* once with a BadRequestException (the validation error) and changes no
\* product, order, payment or cart.
C7_EmptyCartRejected ==
  [][\A c \in Calls :
       (call[c].pc = "idle" /\ call'[c].pc # "idle"
          /\ cartIdentifier(call'[c].userId, call'[c].sessionId) # Null
          /\ NoLiveItem(cartIdentifier(call'[c].userId, call'[c].sessionId)))
       => /\ call'[c].pc = "done"
          /\ call'[c].result.class = BadRequestException("Cart is empty").class
          /\ call'[c].result.msg \in {"Cart is empty", "Cart contains only deleted products"}
          /\ UNCHANGED <<products, orders, payments, carts>>]_vars

\* a call was rejected because its cart, which is still there with its line
\* item, references only a product that has been deleted
C7_Witness ==
  \E c \in Calls :
    /\ call[c].result = BadRequestException("Cart contains only deleted products")
    /\ LET key == cartIdentifier(call[c].userId, call[c].sessionId)
       IN carts[key].exists /\ Len(carts[key].items) >= 1 /\ NoLiveItem(key)
    /\ orders = <<>>

C5_OrderImmutable ==
  [][\A i \in 1..Len(orders) :
       /\ i <= Len(orders')
       /\ orders'[i].totalAmount = orders[i].totalAmount
       /\ Len(orders'[i].orderItems) = Len(orders[i].orderItems)
       /\ \A j \in 1..Len(orders[i].orderItems) :
            /\ orders'[i].orderItems[j].quantity = orders[i].orderItems[j].quantity
            /\ orders'[i].orderItems[j].unitPrice = orders[i].orderItems[j].unitPrice
            /\ orders'[i].orderItems[j].totalPrice = orders[i].orderItems[j].totalPrice]_vars

\* an order that was paid (callback), then delivered (status update), whose
\* product changed its price and was then removed, and whose owner has put
\* something in a cart again
C5_Witness ==
  /\ Len(orders) = 1
  /\ payments[1].status = "SUCCESS"
  /\ orders[1].status = "DELIVERED"
  /\ ~products["p1"].exists
  /\ orders[1].orderItems[1].unitPrice # products["p1"].price
  /\ orders[1].totalAmount = orders[1].orderItems[1].unitPrice * MaxStock
  /\ carts["u1"].exists

Identity(x) == [userId |-> x.userId, sessionId |-> x.sessionId]

\* C9: the latest getOrder or getPaymentStatus response, when it was asked
\* for an order of another identity than the caller's, is the
\* NotFoundException the same call gives on an empty database, and it
\* carries no order and no payment data.
C9_NotOwnerIsNotFound ==
  (/\ lastRead.op # "none"
   /\ lastRead.response.orderId \in 1..Len(orders)
   /\ Identity(orders[lastRead.response.orderId]) # Identity(lastRead))
  => /\ lastRead.response.class = "NotFoundException"
     /\ lastRead.response.order = <<>>
     /\ lastRead.response.payment = <<>>
     /\ lastRead.response =
          IF lastRead.op = "getOrder"
          THEN getOrder(<<>>, lastRead.response.orderId,
                        lastRead.userId, lastRead.sessionId)
          ELSE getPaymentStatus(<<>>, <<>>, lastRead.response.orderId,
                                lastRead.userId, lastRead.sessionId)

\* the guest s1 asked for the payment status of an order of user u1 that has
\* a payment, and another order, of s1, exists
C9_Witness ==
  /\ lastRead.op = "getPaymentStatus"
  /\ lastRead.sessionId = "s1"
  /\ lastRead.response.orderId \in 1..Len(orders)
  /\ orders[lastRead.response.orderId].userId = "u1"
  /\ payments[lastRead.response.orderId].exists
  /\ \E i \in 1..Len(orders) : orders[i].sessionId = "s1"
  /\ lastRead.response.class = "NotFoundException"

\* C10 (the claim as stated): when a callback handler is about to write the
\* payment of an order whose payment is already SUCCESS and already stores
\* this very callback (a second delivery of the same SUCCESS callback), its
\* write changes no field of the payment.
C10_DuplicateSuccessIsNoOp ==
  [][\A h \in Handlers :
       (/\ cb[h].pc = "updatePayment"
        /\ cb'[h] # cb[h]
        /\ payments[cb[h].orderId].status = "SUCCESS"
        /\ payments[cb[h].orderId].gatewayResponse = cb[h].data)
       => payments'[cb[h].orderId] = payments[cb[h].orderId]]_vars

\* C11 (the claim as stated): a Payment whose status is SUCCESS or FAILED
\* keeps that status in every step of every callback, webhook and mock
\* confirmation.
C11_TerminalPayment ==
  [][\A i \in 1..Len(payments) :
       (payments[i].exists /\ payments[i].status \in {"SUCCESS", "FAILED"})
         => payments'[i].status = payments[i].status]_vars

\* C12 (the claim as stated): an Order whose status is CONFIRMED has a
\* Payment whose status is SUCCESS.
C12_ConfirmedHasSuccess ==
  \A i \in 1..Len(orders) :
    orders[i].status = "CONFIRMED"
      => (payments[i].exists /\ payments[i].status = "SUCCESS")

OwnerRead(i) ==
  getPaymentStatus(orders, payments, i, orders[i].userId, orders[i].sessionId)

\* C13 (the claim as stated): getPaymentStatus by the owner never reports
\* paymentStatus SUCCESS together with orderStatus PENDING for an order that
\* a payment callback is settling or has settled.
C13_CallbackAtomic ==
  \A i \in 1..Len(orders) :
    ~(/\ payments[i].exists
      /\ payments[i].gatewayResponse # MockResponse
      /\ OwnerRead(i).payment[1].paymentStatus = "SUCCESS"
      /\ OwnerRead(i).order[1].orderStatus = "PENDING")

Unverified(h) ==
  /\ cb[h].via \in {"handlePaymentCallback", "handleKonnectWebhook"}
  /\ ~cb[h].data.signed

\* C14 (the claim as stated): a request that came in through
\* handlePaymentCallback or handleKonnectWebhook with a payload that does not
\* carry a valid signature writes no Payment and no Order.
C14_UnsignedRejected ==
  [][\A h \in Handlers :
       (Unverified(h) /\ cb'[h] # cb[h]) => UNCHANGED <<payments, orders>>]_vars

VerifiedOrManual(h) ==
  \/ cb[h].via = "handleMockPaymentSuccess"
  \/ (cb[h].via \in {"handlePaymentCallback", "handleKonnectWebhook"} /\ cb[h].data.signed)

\* C15 (the claim as stated): a step that moves a Payment away from PENDING,
\* or an Order to CONFIRMED, is a step of a request whose payload carried a
\* valid signature or of a mock confirmation.
C15_OnlyVerifiedSettles ==
  [][\A i \in 1..Len(orders) :
       ((payments[i].exists /\ payments[i].status = "PENDING"
            /\ payments'[i].status # "PENDING")
        \/ (orders[i].status # "CONFIRMED" /\ orders'[i].status = "CONFIRMED"))
       => \E h \in Handlers : cb'[h] # cb[h] /\ VerifiedOrManual(h)]_vars

GatewayFailure == BadRequestException("Failed to initiate payment")
InitiateEnds(c) == call[c].pc = "created" /\ call'[c].pc = "done"

\* C16: the step in which initiatePayment ends with the gateway's failure
\* hands the caller a BadRequestException and writes nothing: no Payment,
\* the Order as it was, the stock still reduced by the order's quantities,
\* the cart still as createOrder left it.
C16_InitiateFailureKeepsOrder ==
  [][\A c \in Calls :
       (InitiateEnds(c) /\ call'[c].result # Ok
          /\ call'[c].result.class # PrismaError("P2002").class)
       => /\ call'[c].result = GatewayFailure
          /\ orders[call[c].orderId].paymentMethod \in GatewayMethods
          /\ UNCHANGED <<payments, orders, products, carts>>
          /\ \A p \in Products :
               products'[p].stock = initStock[p] - OrderedQuantity(p)]_vars

\* the gateway refused: the order is there and PENDING, it has no payment,
\* its unit is gone from the stock and the cart is empty
C16_Witness ==
  /\ call[1].result = GatewayFailure
  /\ Len(orders) = 1
  /\ orders[1].status = "PENDING"
  /\ ~payments[1].exists
  /\ products["p1"].stock = initStock["p1"] - 1
  /\ carts["u1"] = cartRow("u1", <<>>)

\* C17: when initiatePayment returns successfully the order has exactly one
\* Payment, PENDING, of the order's totalAmount, with a payment URL exactly
\* for the gateway methods; initiatePayment for a cash-on-delivery order
\* never ends with a gateway failure.
C17_InitiateCreatesPayment ==
  [][\A c \in Calls :
       InitiateEnds(c) =>
         LET id == call[c].orderId
         IN /\ call'[c].result = Ok =>
                 /\ payments'[id].exists
                 /\ payments'[id].rows = 1
                 /\ payments'[id].status = "PENDING"
                 /\ payments'[id].amount = orders'[id].totalAmount
                 /\ payments'[id].hasUrl = (orders[id].paymentMethod \in GatewayMethods)
            /\ orders[id].paymentMethod = "CASH_ON_DELIVERY" =>
                 call'[c].result # GatewayFailure]_vars

\* initiatePayment has returned for a cash-on-delivery order
C17_Witness ==
  /\ call[1].pc = "done"
  /\ call[1].result = Ok
  /\ orders[1].paymentMethod = "CASH_ON_DELIVERY"
  /\ payments[1].exists
  /\ payments[1].amount = orders[1].totalAmount
  /\ payments[1].amount > 0
  /\ ~payments[1].hasUrl

C19_PaidAtOnlyOnSuccess ==
  [][\A i \in 1..Len(payments) :
       /\ payments'[i].paidAt # 0 => payments'[i].status = "SUCCESS"
       /\ payments'[i].paidAt # payments[i].paidAt =>
            (payments[i].status = "PENDING" /\ payments'[i].status = "SUCCESS")]_vars

Settled(i) ==
  /\ OwnerRead(i).class = "ok"
  /\ OwnerRead(i).payment[1].paymentStatus = "SUCCESS"
  /\ OwnerRead(i).order[1].orderStatus = "CONFIRMED"

\* C20 (the claim as stated, its 'stays there' part): once getPaymentStatus
\* reports paymentStatus SUCCESS and orderStatus CONFIRMED for an order, it
\* reports them after every later step.
C20_StaysSettled ==
  [][\A i \in 1..Len(orders) : Settled(i) => Settled(i)']_vars

\* C21: the result of handling a callback tells whether the callback was
\* processed, not what the payment outcome was: a handler that ends with
\* {success: true} has written the Payment with the status its payload
\* carries, SUCCESS or FAILED alike (and the Order for SUCCESS); one that
\* ends with {success: false} writes nothing in the step that ends it; and
\* no handler ends by raising an error.
C21_ResultIsProcessing ==
  [][\A h \in Handlers :
       (cb'[h] # cb[h] /\ cb'[h].pc = "idle") =>
          /\ cb'[h].ret \in {"true", "false"}
          /\ cb'[h].ret = "false" => (payments' = payments /\ orders' = orders)
          /\ cb'[h].ret = "true" =>
                LET i == cb[h].orderId
                    status == paymentStatusOf(cb[h].status)
                IN /\ cb[h].pc \in {"updatePayment", "updateOrder"}
                   /\ payments'[i].status = status \/ cb[h].pc = "updateOrder"
                   /\ cb[h].pc = "updatePayment" => status = "FAILED"
                   /\ cb[h].pc = "updateOrder" =>
                         (status = "SUCCESS" /\ orders'[i].status = "CONFIRMED")]_vars

\* one callback has reported success for a FAILED payment and another one
\* for a SUCCESS payment
C21_Witness ==
  /\ cb[1].ret = "true" /\ cb[2].ret = "true"
  /\ payments[1].status = "FAILED" /\ payments[1].gatewayResponse.status = "failed"
  /\ payments[2].status = "SUCCESS" /\ orders[2].status = "CONFIRMED"

\* the quantity of product p in a list of line items, 0 where absent
CartQuantity(items, p) ==
  SumSeq([i \in 1..Len(items) |->
            IF items[i].productId = p THEN items[i].quantity ELSE 0])

Migrated(r) ==
  /\ creq[r].pc = "idle"
  /\ creq[r].op = "migrateGuestCartToUser"
  /\ creq[r].response = Ok

\* C22: after migrateGuestCartToUser has run with an existing guest cart,
\* the user's cart holds for every product the sum of the quantities the
\* guest cart and the user's cart held before, the guest cart is gone, and
\* where the user had no cart or an empty one the user's cart holds exactly
\* the guest cart's line items.
C22_MergeSums ==
  \A r \in CartRequests :
     (Migrated(r) /\ creq[r].branch # "noGuest") =>
        LET user == carts[creq[r].userId]
        IN /\ user.exists
           /\ \A p \in Products :
                 CartQuantity(user.items, p) =
                   CartQuantity(creq[r].items, p) + CartQuantity(creq[r].guestItems, p)
           /\ ~carts[creq[r].sessionId].exists
           /\ creq[r].items = <<>> => user.items = creq[r].guestItems

\* a guest cart and a user cart that both held p1 have been merged
C22_Witness ==
  /\ Migrated(1)
  /\ creq[1].branch = "merge"
  /\ CartQuantity(creq[1].items, "p1") >= 1
  /\ CartQuantity(creq[1].guestItems, "p1") >= 1
  /\ CartQuantity(carts[creq[1].userId].items, "p1") >= 2

\* C23: migrateGuestCartToUser is idempotent: a migration that follows a
\* completed one for the same guest session and user finds no guest cart,
\* and a migration that finds no guest cart changes the line items of no
\* cart, so the user's cart after the second one is the cart after the first.
C23_MergeIdempotent ==
  [][\A r \in CartRequests :
       /\ (/\ Migrated(r)
           /\ creq'[r].pc = "findUser"
           /\ creq'[r].userId = creq[r].userId
           /\ creq'[r].sessionId = creq[r].sessionId) => creq'[r].branch = "noGuest"
       /\ (creq'[r].op = "migrateGuestCartToUser" /\ creq'[r].branch = "noGuest") =>
             \A k \in CartKeys : carts'[k].items = carts[k].items]_vars

\* the guest cart has been merged into the cart u2 did not have, and the
\* migration has run for u2 a second time
C23_Witness ==
  /\ Migrated(1)
  /\ creq[1].userId = "u2"
  /\ creq[1].branch = "noGuest"
  /\ carts["u2"].items # <<>>

\* C24: every cart has exactly one of userId and sessionId set, the one it
\* is found by, and no user and no guest session has more than one cart,
\* whatever cart requests and migrations run at once.
C24_OneCartPerOwner ==
  \A k \in CartKeys :
     /\ carts[k].rows <= 1
     /\ carts[k].exists =>
           /\ (carts[k].userId = Null) # (carts[k].sessionId = Null)
           /\ cartIdentifier(carts[k].userId, carts[k].sessionId) = k

\* two requests have tried to create the same cart, one of them in vain, and
\* the user and the guest have a cart each
C24_Witness ==
  /\ \E r \in CartRequests : creq[r].response = PrismaError("P2002")
  /\ carts["u1"].exists /\ carts["u1"].userId = "u1"
  /\ carts["s1"].exists /\ carts["s1"].sessionId = "s1"

\* C25: every cart holds at most one line item per product and every line
\* item has a quantity of at least 1, whatever addToCart, updateCartItem,
\* removeFromCart and migrateGuestCartToUser requests have run.
C25_LinesWellFormed ==
  \A k \in CartKeys :
     /\ UniqueProducts(carts[k].items)
     /\ \A i \in 1..Len(carts[k].items) : carts[k].items[i].quantity >= 1

\* a request with quantity 0 has been turned down, and u1's cart holds p1 in
\* one line of quantity 2
C25_Witness ==
  /\ \E r \in CartRequests :
        creq[r].response = BadRequestException("quantity must not be less than 1")
  /\ carts["u1"].items = <<[productId |-> "p1", quantity |-> 2]>>

\* C26: addToCart and updateCartItem check the stock softly: no request is
\* turned down because its resulting quantity exceeds the product's stock;
\* it succeeds and the cart is updated, and only createOrder enforces stock.
C26_SoftStockCheck ==
  [][\A r \in CartRequests :
       (/\ creq'[r] # creq[r]
        /\ creq'[r].pc = "idle"
        /\ creq'[r].op \in {"addToCart", "updateCartItem"}) =>
          creq'[r].response # BadRequestException("Insufficient stock")]_vars

\* C27: the cart view has one entry for every stored line item, with a null
\* product where the product has been deleted, and removing a product from
\* the catalog removes no line item from any cart.
C27_DeletedProductStaysInCart ==
  [][/\ \A k \in CartKeys :
          /\ Len(getCart(k)) = Len(carts[k].items)
          /\ \A i \in 1..Len(getCart(k)) :
                /\ getCart(k)[i].productId = carts[k].items[i].productId
                /\ getCart(k)[i].quantity = carts[k].items[i].quantity
                /\ getCart(k)[i].product = products[carts[k].items[i].productId].exists
     /\ (removing' # removing \/ \E p \in Products : products'[p].exists # products[p].exists)
          => \A k \in CartKeys : carts'[k].items = carts[k].items]_vars

\* C28: no two orders share an order number, and a createOrder call does
\* not fail because the number it generated is taken: it generates another
\* one and tries again.
C28_ReferenceRegenerated ==
  [][/\ \A i, j \in 1..Len(orders') :
          orders'[i].orderNumber = orders'[j].orderNumber => i = j
     /\ \A c \in Calls :
          (call[c].pc = "insert" /\ call'[c].pc = "done") =>
             call'[c].result # PrismaError("P2002")]_vars

\* the orders whose order number is the one the payload of handler h names,
\* once the payload has passed verification
NamedOrders(h) ==
  IF cb[h].pc \in {"find", "updatePayment", "updateOrder"}
  THEN {i \in 1..Len(orders) : orders[i].orderNumber = cb[h].data.orderId}
  ELSE {}

C30_StockOnlyByCommit ==
  [][\A p \in Products :
       products'[p].stock # products[p].stock =>
          /\ \E c \in Calls : CommitStep(c)
          /\ products'[p].stock < products[p].stock]_vars

\* the order has taken its units off the stock, its payment has FAILED, and
\* the user's cart holds line items again
C30_Witness ==
  /\ Len(orders) = 1
  /\ products["p1"].stock < initStock["p1"]
  /\ payments[1].status = "FAILED"
  /\ carts["u1"].items # <<>>

\* the item a call is about to decrement
NextDecrement(c) == call[c].productUpdates[call[c].nDec + 1].productId
\* call c waits for a row that call d holds
WaitsFor(c, d) ==
  /\ call[c].pc = "dec"
  /\ InTx(d)
  /\ NextDecrement(c) \in Decremented(d)

\* C31: every createOrder call that has started eventually completes, also
\* when two calls decrement the same two products in opposite order and wait
\* for each other; and a call completes either by committing one order or by
\* aborting with an error that leaves stock, orders and carts as they were.
C31_EveryCallCompletes ==
  /\ \A c \in OrderCalls : (call[c].pc # "idle") ~> IsFinished(c)
  /\ [][\A c \in OrderCalls :
          InTx(c) /\ IsFinished(c)' =>
             \/ /\ call'[c].result = Ok
                /\ Len(orders') = Len(orders) + 1
             \/ /\ call'[c].result # Ok
                /\ call'[c].result # NoResult
                /\ UNCHANGED <<products, orders, carts>>]_vars

\* the two calls hold one product row each and wait for the other's row
C31_Witness ==
  /\ WaitsFor(1, 2)
  /\ WaitsFor(2, 1)

\* the orders created for the owner of a cart
OrdersOf(key) ==
  {i \in 1..Len(orders) : cartIdentifier(orders[i].userId, orders[i].sessionId) = key}

\* C32: two concurrent createOrder calls of one owner, both started while
\* the cart holds the same items, create at most one order from that cart.
\* (The carts are filled once, before the calls, and nothing refills them,
\* so a second order of an owner orders the same contents again.)
C32_CartOrderedOnce ==
  \A key \in CartKeys : Cardinality(OrdersOf(key)) <= 1

\* C33: a line item the owner adds to the cart while a createOrder call for
\* that cart is in flight is not lost: what the cart holds when the call
\* commits is either in the created order or still in the cart afterwards.
C33_AddedItemNotLost ==
  [][\A c \in Calls :
       CommitStep(c) =>
         LET key == cartIdentifier(call[c].userId, call[c].sessionId)
         IN \A p \in Products :
              CartQuantity(carts[key].items, p) <=
                QuantityOf(orders'[Len(orders')], p) + CartQuantity(carts'[key].items, p)]_vars

\* request r writes the cart in this step
WritesCart(r) ==
  /\ creq[r].pc = "updateCart"
  /\ creq'[r].pc = "idle"
  /\ creq'[r].response = Ok

\* C34: two concurrent cart mutations of one owner on different products
\* both take effect: the write of a request on one product leaves the lines
\* of the other products as they are in the cart at that moment, so it does
\* not undo what the other request has written since this one read the cart.
C34_OtherLinesKept ==
  [][\A r \in CartRequests :
       WritesCart(r) =>
         \A p \in Products \ {creq[r].productId} :
            CartQuantity(carts'[keyOf(creq[r])].items, p) =
              CartQuantity(carts[keyOf(creq[r])].items, p)]_vars

\* migration r writes the merged list to the user's cart in this step
MergeWrites(r) ==
  /\ creq[r].pc = "mergeUpdate"
  /\ creq'[r].pc = "deleteGuest"

\* the guest's unit of p1 is in the user's cart at most once
C35_GuestAddedOnce == CartQuantity(carts["u1"].items, "p1") <= 1

\* the write of a merge leaves the user's own lines (p2; the guest cart has
\* none) as they are in the cart at that moment
C35_AddedItemKept ==
  \A r \in CartRequests :
     MergeWrites(r) =>
       CartQuantity(carts'["u1"].items, "p2") = CartQuantity(carts["u1"].items, "p2")

\* C35: when the migration of a guest cart runs twice at once for the same
\* session and user, the guest cart's quantities are added to the user's
\* cart once, and a migration running at the same time as an addItem of the
\* user does not discard the added item.
C35_ConcurrentMerge ==
  /\ []C35_GuestAddedOnce
  /\ [][C35_AddedItemKept]_vars

\* handler h runs its payment.update in this step
UpdatesPayment(h) ==
  /\ cb[h].pc = "updatePayment"
  /\ cb'[h].pc # "updatePayment"
  /\ payments' # payments \/ cb'[h].ret = "true" \/ cb'[h].pc = "updateOrder"

\* C36: handlePaymentCallback sets the Payment to SUCCESS exactly when the
\* status of the verification result is success, paid, completed or
\* approved, and to FAILED for every other status, a missing, an unknown or
\* a pending one included; and no other step of it changes a payment.
C36_StatusMapping ==
  [][\A h \in Handlers :
       /\ UpdatesPayment(h) =>
            /\ cb[h].status \in {"success", "paid", "completed", "approved"}
                  => payments'[cb[h].orderId].status = "SUCCESS"
            /\ cb[h].status \notin {"success", "paid", "completed", "approved"}
                  => payments'[cb[h].orderId].status = "FAILED"
       /\ (cb'[h] # cb[h] /\ ~UpdatesPayment(h)) => payments' = payments]_vars

\* a callback without a status has set the payment to FAILED
C36_Witness ==
  /\ payments[1].status = "FAILED"
  /\ payments[1].gatewayResponse.status = Null

\* the verified callback that handler h holds names no order, or an order
\* without a Payment row
NothingToSettle(h) ==
  /\ cb[h].pc = "find"
  /\ LET i == findOrderByNumber(cb[h].data.orderId)
     IN i = 0 \/ ~payments[i].exists

\* C37: a verified callback whose order reference matches no order, or an
\* order that has no Payment row, changes no order and no payment and is
\* reported as not processed: its handling ends at the lookup with
\* {success: false}.
C37_UnmatchedCallbackIgnored ==
  [][\A h \in Handlers :
       (NothingToSettle(h) /\ cb'[h] # cb[h]) =>
          /\ cb'[h].pc = "idle"
          /\ cb'[h].ret = "false"
          /\ orders' = orders
          /\ payments' = payments]_vars

\* the gateway refused the initiation, so the order has no Payment row, and
\* a verified callback that names this order is being handled
C37_Witness ==
  /\ call[1].result = BadRequestException("Failed to initiate payment")
  /\ \E h \in Handlers :
        /\ NothingToSettle(h)
        /\ findOrderByNumber(cb[h].data.orderId) # 0

====
